---- MODULE Spec2Model ----
(***************************************************************************)
(* Simple-faas: the Engine (CreateFunction / InvokeFunction under one      *)
(* mutex), the Function Store (tables functions and running_containers)    *)
(* and the container runtime it drives.                                    *)
(*                                                                         *)
(* Strings are Go strings: sequences of one-byte characters, so Len is     *)
(* Go's len.  Durations are in microseconds (every value the readiness     *)
(* loop computes before its cap is a whole number of microseconds).        *)
(***************************************************************************)
EXTENDS Integers, Sequences, FiniteSets, TLC

\* ------------------------------------------------------------------ bounds
NumProcs == 2
NumClients == 1
MaxRows == 2
MaxNow == 2
MaxFuncs == 1
MaxCreates == 2

\* ------------------------------------------------------- program constants
FunctionNameMaxLen == 50
FunctionLanguageMaxLen == 50
FunctionCodeMaxLen == 10000
MaxUidLen == 63
InitialBackoff == 500000
MaxBackoff == 5000000
ReadyTimeout == 10000000
StatusOK == 200
DeleteAfterMinutes == 1

Procs == 1..NumProcs

\* ----------------------------------------------------------------- strings
Lower == <<"a","b","c","d","e","f","g","h","i","j","k","l","m",
           "n","o","p","q","r","s","t","u","v","w","x","y","z">>
Upper == <<"A","B","C","D","E","F","G","H","I","J","K","L","M",
           "N","O","P","Q","R","S","T","U","V","W","X","Y","Z">>
Digits == <<"0","1","2","3","4","5","6","7","8","9">>

Range(s) == {s[i] : i \in DOMAIN s}

Rep(c, n) == [i \in 1..n |-> c]

\* strings.ToLower, one character
ToLowerChar(c) ==
    IF c \in Range(Upper)
    THEN Lower[CHOOSE i \in DOMAIN Upper : Upper[i] = c]
    ELSE c

\* strings.ToLower(strings.ReplaceAll(s, "_", "-"))
ReplaceLower(s) == [i \in DOMAIN s |-> ToLowerChar(IF s[i] = "_" THEN "-" ELSE s[i])]

\* the characters the regular expression [^a-z0-9\-] does not match
UidChars == Range(Lower) \cup Range(Digits) \cup {"-"}

\* a replacement that drops nothing
StripNothing(s) == s

\* re.ReplaceAllString(name, ""): the characters outside UidChars dropped
StripOthers(s) == SelectSeq(s, LAMBDA c : c \in UidChars)

\* strconv.Itoa for a natural number
RECURSIVE Itoa(_)
Itoa(n) == IF n < 10 THEN <<Digits[n + 1]>>
           ELSE Itoa(n \div 10) \o <<Digits[(n % 10) + 1]>>

\* a generateFunctionID that cuts the whole uid to its maximal length
generateFunctionIDCutWhole(entry) ==
    LET name == StripOthers(ReplaceLower(entry.FunctionName))
        whole == name \o <<"-">> \o Itoa(entry.ID)
    IN IF Len(whole) > MaxUidLen THEN SubSeq(whole, 1, MaxUidLen) ELSE whole

\* FunctionDB.generateFunctionID
generateFunctionID(entry) ==
    LET name == StripOthers(ReplaceLower(entry.FunctionName))
        suffix == <<"-">> \o Itoa(entry.ID)
        maxNameLength == IF MaxUidLen - Len(suffix) < 1 THEN 0
                         ELSE MaxUidLen - Len(suffix)
        cut == IF Len(name) > maxNameLength THEN SubSeq(name, 1, maxNameLength)
               ELSE name
    IN cut \o suffix

\* the index of the first "-" instead
FirstDash(uid) ==
    LET at == {i \in DOMAIN uid : uid[i] = "-"}
    IN IF at = {} THEN 0 ELSE CHOOSE i \in at : \A j \in at : i <= j

\* strings.LastIndex(uid, "-"), 1-based; 0 when there is none
LastDash(uid) ==
    LET at == {i \in DOMAIN uid : uid[i] = "-"}
    IN IF at = {} THEN 0 ELSE CHOOSE i \in at : \A j \in at : j <= i

\* FunctionDB.solveFunctionID
solveFunctionID(uid) ==
    IF LastDash(uid) # 0 THEN SubSeq(uid, LastDash(uid) + 1, Len(uid)) ELSE <<>>

\* The store compares the INT column id with the string parameter as numbers:
\* the string counts as its leading decimal digits, and as 0 when it has none.
RECURSIVE DigitsValue(_)
DigitsValue(s) ==
    IF s = <<>> THEN 0
    ELSE DigitsValue(SubSeq(s, 1, Len(s) - 1)) * 10
         + (CHOOSE d \in 0..9 : Digits[d + 1] = s[Len(s)])

LeadingDigits(s) ==
    LET stop == {i \in DOMAIN s : s[i] \notin Range(Digits)}
        n == IF stop = {} THEN Len(s)
             ELSE (CHOOSE i \in stop : \A j \in stop : i <= j) - 1
    IN SubSeq(s, 1, n)

SqlInt(s) == DigitsValue(LeadingDigits(s))

\* a container-name filter matches every name that contains it
Contains(name, part) ==
    \E i \in 0..(Len(name) - Len(part)) : SubSeq(name, i + 1, i + Len(part)) = part

\* ------------------------------------------------------------------ inputs
NameOk == <<"A", "_", "b", "!">>
NameMax == Rep("a", FunctionNameMaxLen)
NameLong == Rep("a", FunctionNameMaxLen + 1)

\* A function's code is carried by a handle; CodeText gives its text.
CodeOk == <<"r", "e", "t">>
CodeMax == Rep("x", FunctionCodeMaxLen)
CodeLong == Rep("x", FunctionCodeMaxLen + 1)
CodeText(h) ==
    CASE h = "empty" -> <<>>
      [] h = "ok" -> CodeOk
      [] h = "max" -> CodeMax
      [] h = "long" -> CodeLong

Language == <<"p", "y">>

CreateInputs ==
    { [name |-> NameOk, code |-> "ok"],
      [name |-> NameMax, code |-> "max"],
      [name |-> <<>>, code |-> "ok"],
      [name |-> NameOk, code |-> "empty"],
      [name |-> NameLong, code |-> "ok"],
      [name |-> NameOk, code |-> "long"] }

\* uids no create call has returned: one with no "-", one that ends in the id
\* of the first record under another name
BogusUids == { <<"x">>, <<"x", "-", "1">> }

\* the setting of DELETE_AFTER the README gives as its example: "1m"
DeleteAfterExample == Itoa(DeleteAfterMinutes) \o <<"m">>

\* container ids the runtime hands out, in order
Cids == <<"c1", "c2", "c3", "c4", "c5", "c6", "c7", "c8">>

VARIABLES
    mu,                 \* Engine.mu: the set of processes holding it
    pc,                 \* where each request handler is
    frame,              \* the locals of each handler's call
    trace,              \* the store, runtime and sidecar calls of the call, in order
                        \* (frame.before: table functions when the call began)
    ret,                \* the call's return values, once set
    functions,          \* table functions
    nextId,             \* its AUTO_INCREMENT counter
    running_containers, \* table running_containers
    containers,         \* the runtime's containers
    nextCid,            \* index of the next container id
    cachedFunctions,    \* Engine.cachedFunctions
    now,                \* the store's clock, in minutes
    http,               \* the answer the HTTP handlers wrote last
    sched,              \* the cleanup scheduler: where it is in its tick
    idcase,             \* a FunctionEntry and the uid made and resolved for it
    probed,             \* history: the containers whose sidecar has answered a
                        \* health probe with 200 since they were last started
    DELETE_AFTER        \* the scheduler's environment variable DELETE_AFTER

vars == <<mu, pc, frame, trace, ret, functions, nextId, running_containers,
          containers, nextCid, cachedFunctions, now, http, sched, idcase, probed,
          DELETE_AFTER>>

\* what is outside the engine: the clock, the handlers' answers, the scheduler
outside == <<now, http, sched, idcase, DELETE_AFTER>>

\* what the Engine's methods and the runtime leave alone
beyond == <<outside, probed>>

\* what the sidecar's /invoke answers: whether the request got an answer at
\* all, the status code, whether the body decodes, and its two fields
Result == <<"4", "2">>
Healthy == [transport |-> TRUE, status |-> StatusOK, decodable |-> TRUE,
            error |-> "", result |-> Result]
NoResp == [transport |-> FALSE, status |-> 0, decodable |-> FALSE,
           error |-> "", result |-> <<>>]
\* the answers tried: the healthy one, and one for each way an answer is bad
Responses ==
    { Healthy, NoResp, [Healthy EXCEPT !.status = 500],
      [Healthy EXCEPT !.decodable = FALSE], [Healthy EXCEPT !.error = "boom"] }

\* how long a health probe may take to answer: no time, or as long as the
\* whole readiness timeout
ProbeLatencies == {0, ReadyTimeout}

NullString == [String |-> "", Valid |-> FALSE]
NoEntry == [ID |-> 0, FunctionName |-> <<>>, FunctionCode |-> "empty",
            FunctionLanguage |-> <<>>, ContainerID |-> NullString]
NoFrame == [op |-> "none", name |-> <<>>, code |-> "empty", uid |-> <<>>,
            fun |-> NoEntry, cid |-> "", backoff |-> 0, elapsed |-> 0,
            resp |-> NoResp, before |-> {}]
\* no return value set; val is the uid or the result, <<>> for "" and nil
NoRet == [set |-> FALSE, err |-> FALSE, val |-> <<>>, why |-> ""]

\* no answer written yet
NoAnswer == [op |-> "none", bound |-> FALSE, failed |-> FALSE, status |-> 0,
             error |-> "", result |-> <<>>]
\* the scheduler between two ticks
NoTick == [pc |-> "sleep", rows |-> <<>>, log |-> <<>>, at |-> 0, seen |-> {}]
\* no uid generated or resolved yet
NoCase == [stage |-> "none", entry |-> NoEntry, other |-> NoEntry, uid |-> <<>>,
           uid2 |-> <<>>, id |-> <<>>, found |-> {}]

Init ==
    /\ mu = {}
    /\ pc = [p \in Procs |-> "idle"]
    /\ frame = [p \in Procs |-> NoFrame]
    /\ trace = [p \in Procs |-> <<>>]
    /\ ret = [p \in Procs |-> NoRet]
    /\ functions = {}
    /\ nextId = 1
    /\ running_containers = {}
    /\ containers = {}
    /\ nextCid = 1
    /\ cachedFunctions = [u \in {} |-> NoEntry]
    /\ now = 0
    /\ http = NoAnswer
    /\ sched = NoTick
    /\ idcase = NoCase
    /\ probed = {}
    /\ DELETE_AFTER = DeleteAfterExample

\* ------------------------------------------------------------- bookkeeping
Goto(p, l) == pc' = [pc EXCEPT ![p] = l]

Traced(p, c, r) ==
    trace' = [trace EXCEPT ![p] =
                 Append(@, [call |-> c, res |-> r, at |-> frame[p].elapsed])]

\* the return statement: the return values are set, the deferred Unlock has
\* not run yet
Return(p, e, v, w) ==
    /\ Goto(p, "ret")
    /\ ret' = [ret EXCEPT ![p] = [set |-> TRUE, err |-> e, val |-> v, why |-> w]]

Fail(p, w) == Return(p, TRUE, <<>>, w)

\* a local of the call assigned
Local(p, field, v) == frame' = [frame EXCEPT ![p][field] = v]

store == <<functions, nextId, running_containers>>
runtime == <<containers, nextCid>>

\* ------------------------------------------------------------------- store
InsertRejectsAtLimit(functionName, functionLanguage, functionCode) ==
    IF functionName = <<>> \/ functionLanguage = <<>> \/ functionCode = <<>>
    THEN "empty"
    ELSE IF \/ Len(functionName) >= FunctionNameMaxLen
            \/ Len(functionLanguage) >= FunctionLanguageMaxLen
            \/ Len(functionCode) >= FunctionCodeMaxLen
         THEN "too long"
         ELSE ""

\* InsertFunction's validation: the error it returns, "" when it passes
InsertRejects(functionName, functionLanguage, functionCode) ==
    IF functionName = <<>> \/ functionLanguage = <<>> \/ functionCode = <<>>
    THEN "empty"
    ELSE IF \/ Len(functionName) > FunctionNameMaxLen
            \/ Len(functionLanguage) > FunctionLanguageMaxLen
            \/ Len(functionCode) > FunctionCodeMaxLen
         THEN "too long"
         ELSE ""

\* an INSERT whose rows all get the first id
NewRowFirstId(functionName, functionLanguage, code) ==
    [ID |-> 1, FunctionName |-> functionName, FunctionCode |-> code,
     FunctionLanguage |-> functionLanguage, ContainerID |-> NullString]

\* the row INSERT INTO functions adds
NewRow(functionName, functionLanguage, code) ==
    [ID |-> nextId, FunctionName |-> functionName, FunctionCode |-> code,
     FunctionLanguage |-> functionLanguage, ContainerID |-> NullString]

\* the rows WHERE id = ? selects, the parameter being solveFunctionID(uid)
RowsOf(uid) == {f \in functions : f.ID = SqlInt(solveFunctionID(uid))}

\* FunctionDB.GetFunction: the rows scanned (none: an error)
GetFunction(uid) == RowsOf(uid)

\* an UPDATE that matches no row
UpdateCIDNoRow(uid, containerId) == functions

\* an UPDATE with no WHERE clause
UpdateCIDAllRows(uid, containerId) ==
    { [f EXCEPT !.ContainerID = [String |-> containerId, Valid |-> TRUE]] :
         f \in functions }

\* FunctionDB.UpdateCIDToFunction: table functions after the UPDATE
UpdateCIDToFunction(uid, containerId) ==
    { IF f \in RowsOf(uid)
      THEN [f EXCEPT !.ContainerID = [String |-> containerId, Valid |-> TRUE]]
      ELSE f : f \in functions }

\* a DELETE that matches no row
DeleteFunctionNoRow(uid) == functions

\* FunctionDB.DeleteFunction: table functions after the DELETE
DeleteFunction(uid) == functions \ RowsOf(uid)

\* --------------------------------------------------------- the engine mutex
InBody(p) == pc[p] # "idle"

\* a Lock that does not wait
MutexNotChecked == TRUE

\* sync.Mutex: Lock returns only while no one holds the mutex
MutexFree == mu = {}

\* the uids a caller may hold
UidInputs ==
    {generateFunctionID(f) : f \in functions} \cup DOMAIN cachedFunctions \cup BogusUids

Requests ==
    {[op |-> "create", name |-> i.name, code |-> i.code, uid |-> <<>>] :
        i \in CreateInputs}
    \cup {[op |-> "invoke", name |-> <<>>, code |-> "empty", uid |-> u] :
              u \in UidInputs}

\* a handler calls CreateFunction or InvokeFunction and e.mu.Lock() returns:
\* the call enters its body with its arguments (until then it waits, idle)
Enter(p, r) ==
    /\ pc[p] = "idle"
    /\ MutexFree
    /\ mu' = {p}
    /\ frame' = [frame EXCEPT ![p] =
                    [NoFrame EXCEPT !.op = r.op, !.name = r.name,
                                    !.code = r.code, !.uid = r.uid,
                                    !.before = functions]]
    /\ Goto(p, IF r.op = "create" THEN "c_insert" ELSE "i_lookup")
    /\ UNCHANGED <<trace, ret, store, runtime, cachedFunctions, beyond>>

\* any request a handler may carry
Lock(p) ==
    \E r \in Requests :
       /\ r.op = "create" => nextId <= MaxFuncs
       /\ Enter(p, r)

\* the deferred e.mu.Unlock() runs and the call's frame is gone
Leave(p) ==
    /\ pc[p] = "ret"
    /\ mu' = mu \ {p}
    /\ Goto(p, "idle")
    /\ frame' = [frame EXCEPT ![p] = NoFrame]
    /\ trace' = [trace EXCEPT ![p] = <<>>]
    /\ ret' = [ret EXCEPT ![p] = NoRet]
    /\ UNCHANGED <<store, runtime, cachedFunctions, now, sched, idcase, probed,
                   DELETE_AFTER>>

\* the call returns to a caller that is not followed further
Unlock(p) == Leave(p) /\ UNCHANGED http

\* ----------------------------------------------------------- CreateFunction
\* e.db.InsertFunction(name, "py", code)
CreateInsert(p) ==
    /\ pc[p] = "c_insert"
    /\ LET f == frame[p]
           why == InsertRejects(f.name, Language, CodeText(f.code))
           row == NewRow(f.name, Language, f.code)
       IN IF why # ""
          THEN /\ Fail(p, why)
               /\ UNCHANGED <<frame, trace, functions, nextId>>
          ELSE \E outcome \in {"ok", "no transaction", "insert failed", "commit failed"} :
                 /\ IF outcome \in {"ok", "commit failed"}
                    THEN functions' = functions \cup {row} /\ nextId' = nextId + 1
                    ELSE UNCHANGED <<functions, nextId>>
                 /\ Traced(p, "InsertFunction", outcome)
                 /\ IF outcome = "ok"
                    THEN /\ Local(p, "uid", generateFunctionID(row))
                         /\ Goto(p, "c_create")
                         /\ UNCHANGED ret
                    ELSE /\ Fail(p, "insert")
                         /\ UNCHANGED frame
    /\ UNCHANGED <<mu, running_containers, runtime, cachedFunctions, beyond>>

\* e.cntrCli.ContainerCreate(..., uid): a new container named uid, not started
CreateContainer(p) ==
    /\ pc[p] = "c_create"
    /\ \E fault \in BOOLEAN :
          IF ~fault /\ \A c \in containers : c.Name # frame[p].uid
          THEN /\ containers' = containers \cup
                      {[ID |-> Cids[nextCid], Name |-> frame[p].uid, Status |-> "created"]}
               /\ nextCid' = nextCid + 1
               /\ Local(p, "cid", Cids[nextCid])
               /\ Traced(p, "ContainerCreate", "ok")
               /\ Goto(p, "c_attach")
          ELSE /\ Traced(p, "ContainerCreate", IF fault THEN "fault" ELSE "conflict")
               /\ Goto(p, "c_delete")
               /\ UNCHANGED <<frame, runtime>>
    /\ UNCHANGED <<mu, ret, store, cachedFunctions, beyond>>

\* the backtrack: e.db.DeleteFunction(uid), then the error either way
CreateBacktrack(p) ==
    /\ pc[p] = "c_delete"
    /\ \E fault \in BOOLEAN :
          IF ~fault
          THEN /\ functions' = DeleteFunction(frame[p].uid)
               /\ Traced(p, "DeleteFunction", "ok")
               /\ Fail(p, "container")
          ELSE /\ UNCHANGED functions
               /\ Traced(p, "DeleteFunction", "fault")
               /\ Fail(p, "container, delete")
    /\ UNCHANGED <<mu, frame, nextId, running_containers, runtime, cachedFunctions, beyond>>

\* a CreateFunction that backtracks when the attach fails
AfterAttachErrorBacktrack == "c_delete"

\* if err != nil { return "", ... } after UpdateCIDToFunction: where the call
\* goes on
AfterAttachError == "ret"

\* e.db.UpdateCIDToFunction(uid, resp.ID)
CreateAttach(p) ==
    /\ pc[p] = "c_attach"
    /\ \E fault \in BOOLEAN :
          IF ~fault
          THEN /\ functions' = UpdateCIDToFunction(frame[p].uid, frame[p].cid)
               /\ Traced(p, "UpdateCIDToFunction", "ok")
               /\ Goto(p, "c_get")
               /\ UNCHANGED ret
          ELSE /\ UNCHANGED functions
               /\ Traced(p, "UpdateCIDToFunction", "fault")
               /\ IF AfterAttachError = "ret"
                  THEN Fail(p, "attach")
                  ELSE Goto(p, AfterAttachError) /\ UNCHANGED ret
    /\ UNCHANGED <<mu, frame, nextId, running_containers, runtime, cachedFunctions, beyond>>

\* a CreateFunction that leaves the cache alone
CachePutForgotten(uid, fun) == cachedFunctions

\* a cache that gets the record as it was inserted, before the attach
CachePutStale(uid, fun) ==
    [u \in DOMAIN cachedFunctions \cup {uid} |->
        IF u = uid THEN [fun EXCEPT !.ContainerID = NullString] ELSE cachedFunctions[u]]

\* a cache that keeps only the entry written last
CachePutAlone(uid, fun) == [u \in {uid} |-> fun]

\* e.cachedFunctions[uid] = fun
CachePut(uid, fun) ==
    [u \in DOMAIN cachedFunctions \cup {uid} |->
        IF u = uid THEN fun ELSE cachedFunctions[u]]

\* e.db.GetFunction(uid); e.cachedFunctions[uid] = fun; return uid, nil
CreateCache(p) ==
    /\ pc[p] = "c_get"
    /\ \E fault \in BOOLEAN :
          IF ~fault /\ GetFunction(frame[p].uid) # {}
          THEN LET fun == CHOOSE f \in GetFunction(frame[p].uid) : TRUE
               IN /\ cachedFunctions' = CachePut(frame[p].uid, fun)
                  /\ Local(p, "fun", fun)
                  /\ Traced(p, "GetFunction", "ok")
                  /\ Return(p, FALSE, frame[p].uid, "")
          ELSE /\ UNCHANGED <<cachedFunctions, frame>>
               /\ Traced(p, "GetFunction", IF fault THEN "fault" ELSE "no row")
               /\ Fail(p, "get")
    /\ UNCHANGED <<mu, store, runtime, beyond>>

\* an UpdateLastUsedTime that only ever runs the UPDATE
UpdateLastUsedTimeNoInsert(cid, uid, create) ==
    LET id == SqlInt(solveFunctionID(uid))
    IN { IF r.function_id = id THEN [r EXCEPT !.last_used = now] ELSE r :
            r \in running_containers }

\* FunctionDB.UpdateLastUsedTime: table running_containers after the statement
\* (an INSERT the key or the foreign key refuses leaves the table as it was)
UpdateLastUsedTime(cid, uid, create) ==
    LET id == SqlInt(solveFunctionID(uid))
    IN IF create
       THEN IF \/ \E r \in running_containers : r.container_id = cid
               \/ \A f \in functions : f.ID # id
            THEN running_containers
            ELSE running_containers \cup
                    {[container_id |-> cid, function_id |-> id, last_used |-> now]}
       ELSE { IF r.function_id = id THEN [r EXCEPT !.last_used = now] ELSE r :
                 r \in running_containers }

\* ----------------------------------------------------------- InvokeFunction
\* whether the network name uid resolves to a running container
Reachable(uid) == \E c \in containers : c.Name = uid /\ c.Status = "running"

\* a lookup that always misses the cache
CacheGetSkipped(uid) == {}

\* fun, exists := e.cachedFunctions[uid]
CacheGet(uid) == IF uid \in DOMAIN cachedFunctions THEN {cachedFunctions[uid]} ELSE {}

\* a lookup that caches the record it fetched
CacheAfterMissFilled(uid, fun) == CachePut(uid, fun)

\* the cache after a miss and a fetch from the store: fun is a local of the
\* call, the map is not written
CacheAfterMiss(uid, fun) == cachedFunctions

\* the lookup: the cache, and on a miss e.db.GetFunction(uid)
InvokeLookup(p) ==
    /\ pc[p] = "i_lookup"
    /\ LET uid == frame[p].uid
       IN IF CacheGet(uid) # {}
          THEN /\ Local(p, "fun", CHOOSE f \in CacheGet(uid) : TRUE)
               /\ Traced(p, "cache", "hit")
               /\ Goto(p, "i_inspect")
               /\ UNCHANGED <<ret, cachedFunctions>>
          ELSE \E fault \in BOOLEAN :
                 IF ~fault /\ GetFunction(uid) # {}
                 THEN LET fun == CHOOSE f \in GetFunction(uid) : TRUE
                      IN /\ Local(p, "fun", fun)
                         /\ cachedFunctions' = CacheAfterMiss(uid, fun)
                         /\ Traced(p, "GetFunction", "ok")
                         /\ Goto(p, "i_inspect")
                         /\ UNCHANGED ret
                 ELSE /\ Traced(p, "GetFunction", IF fault THEN "fault" ELSE "no row")
                      /\ Fail(p, "not found")
                      /\ UNCHANGED <<frame, cachedFunctions>>
    /\ UNCHANGED <<mu, store, runtime, beyond>>

\* the container ContainerInspect / ContainerStart are asked about
Container(id) == {c \in containers : c.ID = id}

\* an InvokeFunction that dispatches whatever the inspection says
AfterInspectNoStart(running) == "d_post"

\* if !inspect.State.Running { start and wait }; then the dispatch
AfterInspect(running) == IF ~running THEN "i_start" ELSE "d_post"

\* e.cntrCli.ContainerInspect(ctx, fun.ContainerID.String)
InvokeInspect(p) ==
    /\ pc[p] = "i_inspect"
    /\ LET found == Container(frame[p].fun.ContainerID.String)
           running == \E c \in found : c.Status = "running"
       IN \E fault \in BOOLEAN :
            IF ~fault /\ found # {}
            THEN /\ Traced(p, "ContainerInspect",
                           IF running THEN "running" ELSE "not running")
                 /\ Goto(p, AfterInspect(running))
                 /\ UNCHANGED ret
            ELSE /\ Traced(p, "ContainerInspect", IF fault THEN "fault" ELSE "missing")
                 /\ Fail(p, "inspect")
    /\ UNCHANGED <<mu, frame, store, runtime, cachedFunctions, beyond>>

\* e.cntrCli.ContainerStart(ctx, fun.ContainerID.String, ...), and the first
\* lines of waitForContainerReady
Start(p) ==
    /\ pc[p] = "i_start"
    /\ LET found == Container(frame[p].fun.ContainerID.String)
       IN \E fault \in BOOLEAN :
            IF ~fault /\ found # {}
            THEN /\ containers' = (containers \ found) \cup
                                    {[c EXCEPT !.Status = "running"] : c \in found}
                 /\ Local(p, "backoff", InitialBackoff)
                 /\ Traced(p, "ContainerStart", "ok")
                 /\ Goto(p, "w_check")
                 /\ UNCHANGED ret
            ELSE /\ UNCHANGED <<containers, frame>>
                 /\ Traced(p, "ContainerStart", IF fault THEN "fault" ELSE "missing")
                 /\ Fail(p, "start")
    /\ UNCHANGED <<mu, store, nextCid, cachedFunctions, outside>>

InvokeStart(p) == Start(p) /\ UNCHANGED probed

\* a readiness loop with no timeout
TimedOutNever(elapsed) == FALSE

\* time.Since(startTime) > timeout
TimedOut(elapsed) == elapsed > ReadyTimeout

\* waitForContainerReady, top of the loop: the timeout check, then the probe
\* is sent
WaitCheck(p) ==
    /\ pc[p] = "w_check"
    /\ IF TimedOut(frame[p].elapsed)
       THEN /\ Traced(p, "wait", "timeout")
            /\ Fail(p, "not ready")
       ELSE /\ Goto(p, "w_probe")
            /\ UNCHANGED <<trace, ret>>
    /\ UNCHANGED <<mu, frame, store, runtime, cachedFunctions, beyond>>

\* client.Get(url) answers: 200 only from a sidecar that is reachable and ready
Probe(p) ==
    /\ pc[p] = "w_probe"
    /\ \E d \in ProbeLatencies, ready \in BOOLEAN :
          /\ Local(p, "elapsed", frame[p].elapsed + d)
          /\ IF ready /\ Reachable(frame[p].uid)
             THEN /\ Traced(p, "probe", "ok")
                  /\ Goto(p, "i_usage")
             ELSE /\ Traced(p, "probe",
                            IF Reachable(frame[p].uid) THEN "not ready" ELSE "unreachable")
                  /\ Goto(p, "w_list")
    /\ UNCHANGED <<mu, ret, store, runtime, cachedFunctions, outside>>

WaitProbe(p) == Probe(p) /\ UNCHANGED probed

\* ContainerList filtered by name: the running containers whose name contains
\* the filter
Listed(name) == {c \in containers : c.Status = "running" /\ Contains(c.Name, name)}

\* a listing whose error is not looked at either, but that still fills the list
ListResultAnyway(fault, name) == Listed(name)

\* containers, _ := e.cntrCli.ContainerList(...): the list the loop looks at,
\* nil when the call returned an error
ListResult(fault, name) == IF fault THEN {} ELSE Listed(name)

\* a readiness loop that ignores the listing
CrashedIgnored(listed) == FALSE

\* len(containers) == 0
Crashed(listed) == listed = {}

\* containers, _ := e.cntrCli.ContainerList(...): an error leaves the list nil
WaitList(p) ==
    /\ pc[p] = "w_list"
    /\ \E fault \in BOOLEAN :
          LET listed == ListResult(fault, frame[p].uid)
          IN /\ Traced(p, "ContainerList",
                       IF fault THEN "fault"
                       ELSE IF listed = {} THEN "empty" ELSE "listed")
             /\ IF Crashed(listed)
                THEN Fail(p, "crashed")
                ELSE Goto(p, "w_sleep") /\ UNCHANGED ret
    /\ UNCHANGED <<mu, frame, store, runtime, cachedFunctions, beyond>>

\* a backoff that doubles
NextBackoffDoubled(backoff) ==
    IF backoff * 2 > MaxBackoff THEN MaxBackoff ELSE backoff * 2

\* backoff = time.Duration(float64(backoff) * 1.5), capped at maxBackoff
NextBackoff(backoff) ==
    IF (backoff * 3) \div 2 > MaxBackoff THEN MaxBackoff ELSE (backoff * 3) \div 2

\* time.Sleep(backoff) and the new backoff
WaitSleep(p) ==
    /\ pc[p] = "w_sleep"
    /\ frame' = [frame EXCEPT ![p].elapsed = @ + frame[p].backoff,
                              ![p].backoff = NextBackoff(@)]
    /\ Traced(p, "sleep", "ok")
    /\ Goto(p, "w_check")
    /\ UNCHANGED <<mu, ret, store, runtime, cachedFunctions, beyond>>

\* e.db.UpdateLastUsedTime(fun.ContainerID.String, uid, true), its error dropped
InvokeUsage(p) ==
    /\ pc[p] = "i_usage"
    /\ \E fault \in BOOLEAN :
          /\ running_containers' =
                IF fault THEN running_containers
                ELSE UpdateLastUsedTime(frame[p].fun.ContainerID.String, frame[p].uid, TRUE)
          /\ Traced(p, "UpdateLastUsedTime", IF fault THEN "fault" ELSE "ok")
    /\ Goto(p, "d_post")
    /\ UNCHANGED <<mu, frame, ret, functions, nextId, runtime, cachedFunctions, beyond>>

\* the checks of the answer without the one of its error field
PostRejectsNoErrorField(resp) ==
    IF ~resp.transport THEN "request"
    ELSE IF resp.status # StatusOK THEN "status"
    ELSE IF ~resp.decodable THEN "decode"
    ELSE ""

\* invokeHttpRequest after client.Post: the error it returns for an answer,
\* "" when it returns the result
PostRejects(resp) ==
    IF ~resp.transport THEN "request"
    ELSE IF resp.status # StatusOK THEN "status"
    ELSE IF ~resp.decodable THEN "decode"
    ELSE IF resp.error # "" THEN "function error"
    ELSE ""

\* invokeHttpRequest: client.Post(url, ...) and the checks of its answer
DispatchPost(p) ==
    /\ pc[p] = "d_post"
    /\ \E resp \in Responses :
          /\ resp.transport => Reachable(frame[p].uid)
          /\ Local(p, "resp", resp)
          /\ Traced(p, "post", IF resp.transport THEN "answered" ELSE "no answer")
          /\ IF PostRejects(resp) # ""
             THEN Fail(p, PostRejects(resp))
             ELSE Goto(p, "d_usage") /\ UNCHANGED ret
    /\ UNCHANGED <<mu, store, runtime, cachedFunctions, beyond>>

\* e.db.UpdateLastUsedTime("", uid, false), its error dropped; return result.Result, nil
DispatchUsage(p) ==
    /\ pc[p] = "d_usage"
    /\ \E fault \in BOOLEAN :
          /\ running_containers' =
                IF fault THEN running_containers
                ELSE UpdateLastUsedTime("", frame[p].uid, FALSE)
          /\ Traced(p, "UpdateLastUsedTime", IF fault THEN "fault" ELSE "ok")
    /\ Return(p, FALSE, frame[p].resp.result, "")
    /\ UNCHANGED <<mu, frame, functions, nextId, runtime, cachedFunctions, beyond>>

\* ------------------------------------------------------------- environment
\* a running container exits (its process crashes, or it is stopped)
ContainerExit ==
    /\ \E c \in containers :
          /\ c.Status = "running"
          /\ containers' = (containers \ {c}) \cup {[c EXCEPT !.Status = "exited"]}
    /\ UNCHANGED <<mu, pc, frame, trace, ret, store, nextCid, cachedFunctions, beyond>>

Next ==
    \/ \E p \in Procs :
          \/ Lock(p) \/ Unlock(p)
          \/ CreateInsert(p) \/ CreateContainer(p) \/ CreateBacktrack(p)
          \/ CreateAttach(p) \/ CreateCache(p)
          \/ InvokeLookup(p) \/ InvokeInspect(p) \/ InvokeStart(p)
          \/ WaitCheck(p) \/ WaitProbe(p) \/ WaitList(p) \/ WaitSleep(p)
          \/ InvokeUsage(p) \/ DispatchPost(p) \/ DispatchUsage(p)
    \/ ContainerExit

Spec == Init /\ [][Next]_vars

\* ------------------------------------------------------------ calls that end
\* client.Get(url) on http.DefaultClient, which has no timeout: the sidecar
\* takes the connection and never answers, and the call waits in Get
WaitProbeHangs(p) ==
    /\ pc[p] = "w_probe"
    /\ Reachable(frame[p].uid)
    /\ Traced(p, "probe", "no answer yet")
    /\ Goto(p, "w_hung")
    /\ UNCHANGED <<mu, frame, ret, store, runtime, cachedFunctions, beyond>>

\* the steps of a call that has entered its body
Proceeds(p) ==
    \/ Unlock(p)
    \/ CreateInsert(p) \/ CreateContainer(p) \/ CreateBacktrack(p)
    \/ CreateAttach(p) \/ CreateCache(p)
    \/ InvokeLookup(p) \/ InvokeInspect(p) \/ InvokeStart(p)
    \/ WaitCheck(p) \/ WaitProbe(p) \/ WaitList(p) \/ WaitSleep(p)
    \/ InvokeUsage(p) \/ DispatchPost(p) \/ DispatchUsage(p)
    \/ WaitProbeHangs(p)

NextLive ==
    \/ \E p \in Procs : Lock(p) \/ Proceeds(p)
    \/ ContainerExit

SpecLive == Init /\ [][NextLive]_vars

\* a call inside its body keeps running: every store, runtime and sidecar call
\* it makes comes back in some way, except a probe that hangs
FairLive == SpecLive /\ \A p \in Procs : WF_vars(Proceeds(p))

\* -------------------------------------------------------- concurrent creates
\* the create requests that pass InsertFunction's validation
ValidCreates ==
    {r \in Requests : r.op = "create"
                       /\ InsertRejects(r.name, Language, CodeText(r.code)) = ""}

\* a handler calls CreateFunction with a valid request and e.mu.Lock() returns
LockCreate(p) ==
    \E r \in ValidCreates :
       /\ nextId <= MaxCreates
       /\ Enter(p, r)

\* the handlers create functions side by side, nothing else runs
NextCreate ==
    \E p \in Procs :
       \/ LockCreate(p) \/ Unlock(p)
       \/ CreateInsert(p) \/ CreateContainer(p) \/ CreateBacktrack(p)
       \/ CreateAttach(p) \/ CreateCache(p)

SpecCreate == Init /\ [][NextCreate]_vars

\* ------------------------------------------------- creates and invocations
\* a handler calls InvokeFunction and e.mu.Lock() returns
LockInvoke(p) == \E r \in Requests : r.op = "invoke" /\ Enter(p, r)

\* the handlers register functions and invoke them side by side
NextCache ==
    \E p \in Procs :
       \/ LockCreate(p) \/ LockInvoke(p) \/ Unlock(p)
       \/ CreateInsert(p) \/ CreateContainer(p) \/ CreateBacktrack(p)
       \/ CreateAttach(p) \/ CreateCache(p)
       \/ InvokeLookup(p) \/ InvokeInspect(p) \/ InvokeStart(p)
       \/ WaitCheck(p) \/ WaitProbe(p) \/ WaitList(p) \/ WaitSleep(p)
       \/ InvokeUsage(p) \/ DispatchPost(p) \/ DispatchUsage(p)

SpecCache == Init /\ [][NextCache]_vars

\* ------------------------------------------------------------ HTTP handlers
\* the handlers followed for their answers
Clients == 1..NumClients

\* c.BindJSON(&req) fails: 400 and the error, the engine is not called
handleBadBody(p) ==
    /\ pc[p] = "idle"
    /\ \E op \in {"create", "invoke"} :
          http' = [op |-> op, bound |-> FALSE, failed |-> FALSE,
                   status |-> 400, error |-> "bind", result |-> <<>>]
    /\ UNCHANGED <<mu, pc, frame, trace, ret, store, runtime, cachedFunctions,
                   now, sched, idcase, probed, DELETE_AFTER>>

\* a handler that answers 2xx whatever the engine returned
AnswerSuccessAlways(op, r) ==
    [op |-> op, bound |-> TRUE, failed |-> r.err,
     status |-> IF op = "create" THEN 201 ELSE 200,
     error |-> "", result |-> r.val]

\* handleCreate / handleInvoke after the engine call: 500 and err.Error(), or
\* 201 / 200 and the result
Answer(op, r) ==
    IF r.err
    THEN [op |-> op, bound |-> TRUE, failed |-> TRUE, status |-> 500,
          error |-> "failed to " \o op \o " function", result |-> <<>>]
    ELSE [op |-> op, bound |-> TRUE, failed |-> FALSE,
          status |-> IF op = "create" THEN 201 ELSE 200,
          error |-> "", result |-> r.val]

\* the engine call returns to its handler, which writes the answer
handleReturn(p) == Leave(p) /\ http' = Answer(frame[p].op, ret[p])

NextHTTP ==
    \/ \E p \in Clients :
          \/ handleBadBody(p) \/ Lock(p) \/ handleReturn(p)
          \/ CreateInsert(p) \/ CreateContainer(p) \/ CreateBacktrack(p)
          \/ CreateAttach(p) \/ CreateCache(p)
          \/ InvokeLookup(p) \/ InvokeInspect(p) \/ InvokeStart(p)
          \/ WaitCheck(p) \/ WaitProbe(p) \/ WaitList(p) \/ WaitSleep(p)
          \/ InvokeUsage(p) \/ DispatchPost(p) \/ DispatchUsage(p)

SpecHTTP == Init /\ [][NextHTTP]_vars

\* ------------------------------------------------------- cleanup scheduler
\* the functions registered before the scheduler is looked at: the k-th has
\* id k and the k-th container
Registered == 1..MaxRows
Entry(k) ==
    [ID |-> k, FunctionName |-> IF k % 2 = 1 THEN NameOk ELSE NameMax,
     FunctionCode |-> "ok", FunctionLanguage |-> Language,
     ContainerID |-> [String |-> Cids[k], Valid |-> TRUE]]

\* the engine at rest after the registration of the functions K
EngineAtRest(K) ==
    /\ mu = {}
    /\ pc = [p \in Procs |-> "idle"]
    /\ frame = [p \in Procs |-> NoFrame]
    /\ trace = [p \in Procs |-> <<>>]
    /\ ret = [p \in Procs |-> NoRet]
    /\ functions = {Entry(k) : k \in K}
    /\ nextId = Cardinality(K) + 1
    /\ nextCid = Cardinality(K) + 1
    /\ cachedFunctions =
          [u \in {generateFunctionID(Entry(k)) : k \in K} |->
              CHOOSE f \in {Entry(k) : k \in K} : generateFunctionID(f) = u]
    /\ http = NoAnswer
    /\ probed = {}

\* the states the scheduler may find: each container never started, running
\* or exited; a usage record, of any age, only for one that was started
StoreStates ==
    /\ EngineAtRest(Registered)
    /\ idcase = NoCase
    /\ sched = NoTick
    /\ now \in 0..MaxNow
    /\ \E st \in [Registered -> {"created", "running", "exited"}],
          used \in [Registered -> (0..MaxNow) \cup {-1}] :
          /\ \A k \in Registered :
                /\ used[k] <= now
                /\ st[k] = "created" => used[k] = -1
          /\ containers =
                {[ID |-> Cids[k], Name |-> generateFunctionID(Entry(k)),
                  Status |-> st[k]] : k \in Registered}
          /\ running_containers =
                {[container_id |-> Cids[k], function_id |-> k,
                  last_used |-> used[k]] : k \in {j \in Registered : used[j] >= 0}}

\* the scheduler started with the README's setting
InitSched == StoreStates /\ DELETE_AFTER = DeleteAfterExample

\* the store's clock moves on by a minute (engine calls and cleanup runs last
\* seconds: the minute is taken to turn between them)
Tick ==
    /\ mu = {}
    /\ sched.pc = "sleep"
    /\ now < MaxNow
    /\ now' = now + 1
    /\ UNCHANGED <<mu, pc, frame, trace, ret, store, runtime, cachedFunctions,
                   http, sched, idcase, probed, DELETE_AFTER>>

\* a query with no WHERE clause
ExpiredAll(rows, t) == rows

\* the seconds of a unit of time.ParseDuration
UnitSeconds(u) == CASE u = "s" -> 1 [] u = "m" -> 60 [] u = "h" -> 3600

\* time.ParseDuration after the sign, for whole numbers with the units s, m
\* and h: the seconds of the groups "<digits><unit>", -1 for an error (no
\* digits, a missing or an unknown unit)
RECURSIVE ParseGroups(_)
ParseGroups(s) ==
    IF s = <<>> THEN 0
    ELSE LET digits == LeadingDigits(s)
             rest == SubSeq(s, Len(digits) + 1, Len(s))
         IN IF digits = <<>> \/ rest = <<>> \/ rest[1] \notin {"s", "m", "h"}
            THEN -1
            ELSE LET more == ParseGroups(Tail(rest))
                 IN IF more < 0 THEN -1
                    ELSE DigitsValue(digits) * UnitSeconds(rest[1]) + more

\* deleteAfter, _ := time.ParseDuration(...): the duration in seconds, 0 when
\* ParseDuration returns an error
ParseDuration(s) ==
    LET neg == s # <<>> /\ s[1] = "-"
        body == IF s # <<>> /\ s[1] \in {"-", "+"} THEN Tail(s) ELSE s
        d == IF body = <<"0">> THEN 0 ELSE ParseGroups(body)
    IN IF body = <<>> \/ d < 0 THEN 0 ELSE IF neg THEN -d ELSE d

\* a conversion that rounds up to the next minute
MinutesUp(d) == (d + 59) \div 60

\* int(deleteAfter.Minutes()): the float64 of the minutes, cut towards zero
Minutes(d) == IF d >= 0 THEN d \div 60 ELSE -((-d) \div 60)

\* WHERE last_used < NOW() - INTERVAL ? MINUTE
Expired(rows, t) ==
    {r \in rows : r.last_used < t - Minutes(ParseDuration(DELETE_AFTER))}

\* the orders in which a result set may come (the query has no ORDER BY)
Orders(S) ==
    {q \in [1..Cardinality(S) -> S] : \A i, j \in DOMAIN q : i # j => q[i] # q[j]}

Logged(c, id, r) == Append(sched.log, [call |-> c, cid |-> id, res |-> r])

\* what the scheduler leaves alone
engine == <<mu, pc, frame, trace, ret, functions, nextId, nextCid,
            cachedFunctions, now, http, idcase, probed, DELETE_AFTER>>

\* the ticker fires: CleanupContainers runs its query
CleanupQuery ==
    /\ sched.pc = "sleep"
    /\ \E fault \in BOOLEAN :
          IF fault
          THEN sched' = [pc |-> "returned", rows |-> <<>>,
                         log |-> <<[call |-> "query", cid |-> "", res |-> "fault"]>>,
                         at |-> now, seen |-> running_containers]
          ELSE \E q \in Orders({r.container_id :
                                   r \in Expired(running_containers, now)}) :
                  sched' = [pc |-> "loop", rows |-> q,
                            log |-> <<[call |-> "query", cid |-> "", res |-> "ok"]>>,
                            at |-> now, seen |-> running_containers]
    /\ UNCHANGED <<engine, running_containers, containers>>

\* a stop that goes on with the next row
StopFailedGoesOn(rows) == Tail(rows)

\* the rows still to handle after a ContainerStop error: return
StopFailed(rows) == <<>>

\* a stop that removes the container
StoppedAndRemoved(cs, id) == {c \in cs : c.ID # id}

\* the runtime's containers after ContainerStop(id) succeeded
Stopped(cs, id) ==
    {IF c.ID = id /\ c.Status = "running" THEN [c EXCEPT !.Status = "exited"] ELSE c :
        c \in cs}

\* rows.Next(), rows.Scan and cli.ContainerStop for the row
CleanupStop ==
    /\ sched.pc = "loop"
    /\ sched.rows # <<>>
    /\ LET cID == Head(sched.rows)
       IN \E res \in {"ok", "fault", "scan"} :
            CASE res = "scan" ->
                   /\ sched' = [sched EXCEPT !.rows = Tail(@),
                                             !.log = Logged("Scan", cID, "fault")]
                   /\ UNCHANGED containers
              [] res = "ok" /\ Container(cID) # {} ->
                   /\ containers' = Stopped(containers, cID)
                   /\ sched' = [sched EXCEPT !.pc = "delete",
                                             !.log = Logged("ContainerStop", cID, "ok")]
              [] OTHER ->
                   /\ sched' = [sched EXCEPT
                         !.pc = IF StopFailed(sched.rows) = <<>> THEN "returned" ELSE "loop",
                         !.rows = StopFailed(sched.rows),
                         !.log = Logged("ContainerStop", cID, "fault")]
                   /\ UNCHANGED containers
    /\ UNCHANGED <<engine, running_containers>>

\* a delete that goes on with the next row
DeleteFailedGoesOn(rows) == Tail(rows)

\* the rows still to handle after an error of the DELETE: return
DeleteFailed(rows) == <<>>

\* DELETE FROM running_containers WHERE container_id = ?
CleanupDelete ==
    /\ sched.pc = "delete"
    /\ LET cID == Head(sched.rows)
       IN \E fault \in BOOLEAN :
            IF fault
            THEN /\ sched' = [sched EXCEPT
                         !.pc = IF DeleteFailed(sched.rows) = <<>> THEN "returned" ELSE "loop",
                         !.rows = DeleteFailed(sched.rows),
                         !.log = Logged("DELETE", cID, "fault")]
                 /\ UNCHANGED running_containers
            ELSE /\ running_containers' =
                       {r \in running_containers : r.container_id # cID}
                 /\ sched' = [sched EXCEPT !.pc = "loop", !.rows = Tail(@),
                                           !.log = Logged("DELETE", cID, "ok")]
    /\ UNCHANGED <<engine, containers>>

\* rows.Next() finds no more row: CleanupContainers returns
CleanupDone ==
    /\ sched.pc = "loop"
    /\ sched.rows = <<>>
    /\ sched' = [sched EXCEPT !.pc = "returned"]
    /\ UNCHANGED <<engine, running_containers, containers>>

\* CleanupContainers has returned: main waits for the ticker again
CleanupSleep ==
    /\ sched.pc = "returned"
    /\ sched' = NoTick
    /\ UNCHANGED <<engine, running_containers, containers>>

NextSched ==
    \/ Tick
    \/ CleanupQuery \/ CleanupStop \/ CleanupDelete \/ CleanupDone \/ CleanupSleep

SpecSched == InitSched /\ [][NextSched]_vars

\* -------------------------------------------------- the idle threshold
\* settings of DELETE_AFTER: unset, not a duration, a number with no unit,
\* zero, seconds below and above a minute, whole minutes, minutes and seconds,
\* a negative duration
DeleteAfterSettings ==
    { <<>>, <<"s", "o", "o", "n">>, <<"1">>, <<"0">>, <<"3", "0", "s">>,
      <<"5", "9", "s">>, DeleteAfterExample, <<"9", "0", "s">>,
      <<"1", "m", "5", "9", "s">>, <<"2", "m">>, <<"1", "2", "0", "s">>,
      <<"-", "9", "0", "s">> }

\* the scheduler started with any of the settings
InitIdle == StoreStates /\ DELETE_AFTER \in DeleteAfterSettings

SpecIdle == InitIdle /\ [][NextSched]_vars

\* the container registered last: its row comes after the others in the
\* table
Sound == Cids[MaxRows]

\* the ticker keeps firing, the query keeps succeeding and the loop goes on
\* from row to row; the stop of the container Sound succeeds whenever the loop
\* keeps coming to it, and so do the deletes; the stops of the other
\* containers may fail every time
FairSched ==
    /\ SpecSched
    /\ WF_vars(Tick)
    /\ SF_vars(CleanupQuery /\ sched'.pc = "loop")
    /\ WF_vars(CleanupStop)
    /\ SF_vars(CleanupStop /\ Head(sched.rows) = Sound /\ sched'.pc = "delete")
    /\ SF_vars(CleanupDelete /\ sched'.pc = "loop")
    /\ WF_vars(CleanupDone)
    /\ WF_vars(CleanupSleep)

\* ------------------------------------------- the engine and the scheduler
\* the functions the engine serves while the scheduler runs
Deployed == 1..MaxFuncs

\* the functions are registered, no container started yet
InitFaas ==
    /\ EngineAtRest(Deployed)
    /\ DELETE_AFTER = DeleteAfterExample
    /\ idcase = NoCase
    /\ sched = NoTick
    /\ now = 0
    /\ containers =
          {[ID |-> Cids[k], Name |-> generateFunctionID(Entry(k)),
            Status |-> "created"] : k \in Deployed}
    /\ running_containers = {}

\* the engine's mutex lets one call run at a time, so one caller stands for the
\* handlers of the server
Caller == CHOOSE p \in Clients : TRUE

\* the engine serves invocations while the scheduler ticks
NextFaas ==
    \/ \E p \in {Caller} :
          \/ Lock(p) \/ Unlock(p)
          \/ InvokeLookup(p) \/ InvokeInspect(p) \/ InvokeStart(p)
          \/ WaitCheck(p) \/ WaitProbe(p) \/ WaitList(p) \/ WaitSleep(p)
          \/ InvokeUsage(p) \/ DispatchPost(p) \/ DispatchUsage(p)
    \/ Tick
    \/ CleanupQuery \/ CleanupStop \/ CleanupDelete \/ CleanupDone \/ CleanupSleep

SpecFaas == InitFaas /\ [][NextFaas]_vars

\* the ticker keeps firing and the clock keeps moving; the query, the stops and
\* the deletes of the cleanup succeed again and again
FairFaas ==
    /\ SpecFaas
    /\ WF_vars(Tick)
    /\ SF_vars(CleanupQuery /\ sched'.pc = "loop")
    /\ SF_vars(CleanupStop /\ sched'.pc = "delete")
    /\ SF_vars(CleanupDelete /\ sched'.pc = "loop")
    /\ WF_vars(CleanupDone)
    /\ WF_vars(CleanupSleep)

\* ------------------------------------------------ warm starts and probes
\* the running containers a request to the host uid reaches
Answering(uid) == {c.ID : c \in {d \in containers : d.Name = uid /\ d.Status = "running"}}

\* ContainerStart, and the history: the container started has not answered a
\* probe since
InvokeStartSeen(p) ==
    /\ Start(p)
    /\ probed' = IF pc'[p] = "w_check"
                 THEN probed \ {frame[p].fun.ContainerID.String}
                 ELSE probed

\* client.Get(url), and the history: the container that answered 200 has
\* answered a probe since it was started
WaitProbeSeen(p) ==
    /\ Probe(p)
    /\ probed' = IF pc'[p] = "i_usage" THEN probed \cup Answering(frame[p].uid)
                 ELSE probed

\* the engine serves invocations one after the other, the containers may exit
NextWarm ==
    \/ \E p \in {Caller} :
          \/ Lock(p) \/ Unlock(p)
          \/ InvokeLookup(p) \/ InvokeInspect(p) \/ InvokeStartSeen(p)
          \/ WaitCheck(p) \/ WaitProbeSeen(p) \/ WaitList(p) \/ WaitSleep(p)
          \/ InvokeUsage(p) \/ DispatchPost(p) \/ DispatchUsage(p)
    \/ ContainerExit

SpecWarm == InitFaas /\ [][NextWarm]_vars

\* -------------------------------------------------------------- the uids
\* names a FunctionEntry may carry: the ones InsertFunction accepts (empty
\* excluded), with capitals, "_", "-", digits and other characters, and, for
\* generateFunctionID taken by itself, names longer than a uid
UidNames ==
    { NameOk, NameMax, <<"f", "-", "2">>, <<"_", "X", "_">>, <<"!", "?">>,
      Rep("Z", MaxUidLen + 2), Rep("a", MaxUidLen - 3) \o <<"-", "9", "!", "b">> }

\* ids of the INT AUTO_INCREMENT column: the first ones, ones of two digits
\* and the largest
UidIds == {1, 2, 10, 12, 2147483647}

UidEntries ==
    { [NoEntry EXCEPT !.ID = i, !.FunctionName = n, !.FunctionCode = "ok",
                      !.FunctionLanguage = Language] : i \in UidIds, n \in UidNames }

\* uids a caller may send that no create call has returned
GivenUids ==
    BogusUids \cup { <<>>, <<"-">>, <<"x", "-">>, <<"a", "-", "b", "-", "2">>,
                     <<"x", "-", "1", "a">>, <<"x", "-", "0">>, <<"2">> }

\* two rows of the functions table are about to get their uids, or a caller
\* sends a uid; the store holds the registered functions
InitUid ==
    /\ EngineAtRest(Registered)
    /\ DELETE_AFTER = DeleteAfterExample
    /\ sched = NoTick
    /\ now = 0
    /\ containers =
          {[ID |-> Cids[k], Name |-> generateFunctionID(Entry(k)),
            Status |-> "created"] : k \in Registered}
    /\ running_containers = {}
    /\ \/ \E e, o \in UidEntries :
             /\ e.ID # o.ID
             /\ idcase = [NoCase EXCEPT !.stage = "entry", !.entry = e, !.other = o]
       \/ \E u \in GivenUids : idcase = [NoCase EXCEPT !.stage = "given", !.uid = u]

\* what the uid functions leave alone
program == <<mu, pc, frame, trace, ret, store, runtime, cachedFunctions, now,
             http, sched, probed, DELETE_AFTER>>

\* return fDB.generateFunctionID(fun), for each of the two rows
UidGenerate ==
    /\ idcase.stage = "entry"
    /\ idcase' = [idcase EXCEPT !.stage = "generated",
                                !.uid = generateFunctionID(idcase.entry),
                                !.uid2 = generateFunctionID(idcase.other)]
    /\ UNCHANGED program

\* id := fDB.solveFunctionID(uid)
UidSolve ==
    /\ idcase.stage \in {"generated", "given"}
    /\ idcase' = [idcase EXCEPT !.stage = "solved", !.id = solveFunctionID(idcase.uid)]
    /\ UNCHANGED program

\* SELECT ... FROM functions WHERE id = ?, with the resolved id
UidLookup ==
    /\ idcase.stage = "solved"
    /\ idcase' = [idcase EXCEPT !.stage = "looked", !.found = GetFunction(idcase.uid)]
    /\ UNCHANGED program

NextUid == UidGenerate \/ UidSolve \/ UidLookup

SpecUid == InitUid /\ [][NextUid]_vars

\* ------------------------------------------------------------------ claims
Creating(p) == frame[p].op = "create"
Invoking(p) == frame[p].op = "invoke"
Returned(p) == pc[p] = "ret"
Last(t) == t[Len(t)]
Did(p, c, r) == \E i \in DOMAIN trace[p] : trace[p][i].call = c /\ trace[p][i].res = r
Called(p, c) == \E i \in DOMAIN trace[p] : trace[p][i].call = c

\* C1: at most one CreateFunction or InvokeFunction call is inside its body at
\* any instant, and a call is inside its body exactly while it holds the engine
\* mutex, from its entry to its deferred Unlock: through the readiness loop and
\* the dispatch too.
C1_OneCallInBody ==
    /\ \A p, q \in Procs : InBody(p) /\ InBody(q) => p = q
    /\ \A p \in Procs : InBody(p) <=> p \in mu

\* a call sleeps in the readiness loop, holding the mutex, while another
\* handler is outside
C1_Witness ==
    \E p, q \in Procs : p # q /\ pc[p] = "w_sleep" /\ mu = {p} /\ ~InBody(q)

\* the calls in which container creation failed, once they return
C2_Case(p) == Creating(p) /\ Returned(p) /\ Called(p, "ContainerCreate")
              /\ ~Did(p, "ContainerCreate", "ok")

\* C2 as stated: when container creation fails the call returns an error and
\* the record it inserted is no longer retrievable.
C2_Original ==
    \A p \in Procs : C2_Case(p) => ret[p].err /\ GetFunction(frame[p].uid) = {}

\* C2 amended: when container creation fails the call returns an error and
\* asks the store to delete the record it inserted; the record is no longer
\* retrievable when that delete succeeds, and stays in the store, with no
\* container id, when the delete fails.
C2_Backtrack ==
    \A p \in Procs : C2_Case(p) =>
        /\ ret[p].err
        /\ Last(trace[p]).call = "DeleteFunction"
        /\ Last(trace[p]).res = "ok" => GetFunction(frame[p].uid) = {}
        /\ Last(trace[p]).res # "ok" =>
              \E f \in GetFunction(frame[p].uid) :
                  /\ f \notin frame[p].before
                  /\ f.ContainerID = NullString

\* container creation failed and the delete went through
C2_Witness ==
    \E p \in Procs : C2_Case(p) /\ Did(p, "DeleteFunction", "ok")
                     /\ frame[p].before = {} /\ functions = {}

\* the arguments CreateFunction must refuse
C3_Invalid(f) ==
    \/ f.name = <<>> \/ CodeText(f.code) = <<>>
    \/ Len(f.name) > FunctionNameMaxLen
    \/ Len(CodeText(f.code)) > FunctionCodeMaxLen

\* C3: CreateFunction with an empty name, an empty code, a name longer than 50
\* or a code longer than 10,000 fails before any store or runtime call: no row,
\* no container, the cache as it was; a name of exactly 50 with a code of
\* exactly 10,000 passes the validation (the insert is attempted).
C3_ValidationFirst ==
    [][\A p \in Procs : (pc[p] = "c_insert" /\ pc'[p] # "c_insert") =>
          /\ C3_Invalid(frame[p]) =>
                /\ pc'[p] = "ret" /\ ret'[p].err /\ ret'[p].val = <<>>
                /\ trace'[p] = <<>>
                /\ functions' = functions /\ nextId' = nextId
                /\ running_containers' = running_containers
                /\ containers' = containers /\ nextCid' = nextCid
                /\ cachedFunctions' = cachedFunctions
          /\ (/\ Len(frame[p].name) = FunctionNameMaxLen
              /\ Len(CodeText(frame[p].code)) = FunctionCodeMaxLen) =>
                Called(p, "InsertFunction")'
      ]_vars

\* a create call with a name of 51 characters has returned its error
C3_Witness ==
    \E p \in Procs : /\ Creating(p) /\ Returned(p) /\ ret[p].err
                     /\ Len(frame[p].name) = FunctionNameMaxLen + 1
                     /\ trace[p] = <<>>

\* C4: when CreateFunction returns a uid, exactly one record is new; it holds
\* the call's name and code and the id of the container the call created; that
\* container exists, named by the uid, created and not started; it has no
\* usage record; and the cache maps the uid to that record.
C4_CreateResult ==
    \A p \in Procs : (Creating(p) /\ Returned(p) /\ ~ret[p].err) =>
        LET uid == ret[p].val
            new == functions \ frame[p].before
        IN /\ Cardinality(new) = 1
           /\ frame[p].before \subseteq functions
           /\ \A f \in new :
                 /\ f.FunctionName = frame[p].name
                 /\ f.FunctionCode = frame[p].code
                 /\ f.ContainerID = [String |-> frame[p].cid, Valid |-> TRUE]
                 /\ generateFunctionID(f) = uid
                 /\ uid \in DOMAIN cachedFunctions
                 /\ cachedFunctions[uid] = f
           /\ Cardinality({c \in containers : c.ID = frame[p].cid}) = 1
           /\ \A c \in containers : c.ID = frame[p].cid =>
                 c.Name = uid /\ c.Status = "created"
           /\ \A r \in running_containers : r.container_id # frame[p].cid

\* a create call has returned a uid
C4_Witness ==
    \E p \in Procs : /\ Creating(p) /\ Returned(p) /\ ~ret[p].err
                     /\ ret[p].val = frame[p].uid /\ frame[p].cid # ""

\* C5: InvokeFunction looks the uid up in the cache first and uses the cached
\* record on a hit, asking the store nothing; on a miss it asks the store and
\* uses the row of the resolved id; when the store has none (or fails) the call
\* returns an error having made no other call: no inspection, no start, no
\* probe, no request to a sidecar.
C5_Lookup ==
    \A p \in Procs : (Invoking(p) /\ trace[p] # <<>>) =>
        LET first == trace[p][1]
            uid == frame[p].uid
        IN /\ first.call \in {"cache", "GetFunction"}
           /\ first.call = "cache" <=> uid \in DOMAIN cachedFunctions
           /\ first.call = "cache" =>
                 frame[p].fun = cachedFunctions[uid] /\ ~Called(p, "GetFunction")
           /\ (first.call = "GetFunction" /\ first.res = "ok") =>
                 /\ frame[p].fun \in functions
                 /\ Itoa(frame[p].fun.ID) = solveFunctionID(uid)
           /\ (first.call = "GetFunction" /\ first.res # "ok") =>
                 /\ Returned(p) /\ ret[p].err /\ ret[p].val = <<>>
                 /\ Len(trace[p]) = 1
           /\ first.res = "no row" =>
                 \A f \in functions : Itoa(f.ID) # solveFunctionID(uid)

\* an invoke of a uid found neither in the cache nor in the store has returned
C5_Witness ==
    \E p \in Procs : /\ Invoking(p) /\ Returned(p) /\ ret[p].err
                     /\ trace[p] = <<[call |-> "GetFunction", res |-> "no row", at |-> 0]>>
                     /\ functions # {}

\* the entries of a call's trace after which the readiness state machine has
\* failed
C6_Terminal(e) ==
    \/ e.call = "ContainerInspect" /\ e.res \notin {"running", "not running"}
    \/ e.call = "ContainerStart" /\ e.res # "ok"
    \/ e.call = "wait" /\ e.res = "timeout"
    \/ e.call = "ContainerList" /\ e.res \in {"empty", "fault"}

\* C6: InvokeFunction issues a start only right after an inspection that
\* succeeded and reported the container not running; it probes the health
\* endpoint only after a start that succeeded; it posts to the sidecar only if
\* the inspection reported the container running or a probe succeeded; and an
\* inspection, start or readiness failure is the call's last step: it returns
\* an error and has posted nothing.
C6_ReadinessOrder ==
    \A p \in Procs : Invoking(p) =>
        \A i \in DOMAIN trace[p] :
            LET e == trace[p][i]
            IN /\ e.call = "ContainerStart" =>
                     /\ i > 1
                     /\ trace[p][i - 1].call = "ContainerInspect"
                     /\ trace[p][i - 1].res = "not running"
               /\ e.call = "probe" =>
                     \E j \in 1..(i - 1) : /\ trace[p][j].call = "ContainerStart"
                                           /\ trace[p][j].res = "ok"
               /\ e.call = "post" =>
                     \E j \in 1..(i - 1) :
                         \/ /\ trace[p][j].call = "ContainerInspect"
                            /\ trace[p][j].res = "running"
                         \/ /\ trace[p][j].call = "probe"
                            /\ trace[p][j].res = "ok"
               /\ C6_Terminal(e) =>
                     /\ i = Len(trace[p])
                     /\ Returned(p) /\ ret[p].err /\ ret[p].val = <<>>
                     /\ ~Called(p, "post")

\* a cold invocation has gone through inspection, start, probe and dispatch
\* and returned the result
C6_Witness ==
    \E p \in Procs : /\ Invoking(p) /\ Returned(p) /\ ~ret[p].err
                     /\ Did(p, "ContainerInspect", "not running")
                     /\ Did(p, "ContainerStart", "ok")
                     /\ Did(p, "probe", "ok")
                     /\ Did(p, "post", "answered")

\* what can make an invocation of a registered function fail: a store or
\* runtime call that failed, a sidecar that did not answer its probe with 200
\* or was not there to answer, a request that got no answer or not the answer
\* of a healthy function
C7_Excused(p) ==
    \/ \E i \in DOMAIN trace[p] :
           trace[p][i].res \in {"fault", "not ready", "unreachable", "no answer"}
    \/ Called(p, "post") /\ frame[p].resp # Healthy

\* C7: an invocation of a uid that CreateFunction returned fails only for a
\* failure of the store, of the runtime or of the sidecar: with those healthy
\* it returns the sidecar's result; and an invocation that finds the container
\* running sends no start command and no health probe: its next step is the
\* request to the sidecar.
C7_RoundTrip ==
    \A p \in Procs : (Invoking(p) /\ frame[p].uid \in DOMAIN cachedFunctions) =>
        /\ (Returned(p) /\ ret[p].err) => C7_Excused(p)
        /\ (Returned(p) /\ ~ret[p].err) => ret[p].val = Result
        /\ \A i \in DOMAIN trace[p] :
              (trace[p][i].call = "ContainerInspect" /\ trace[p][i].res = "running") =>
                 /\ ~Called(p, "ContainerStart")
                 /\ ~Called(p, "probe")
                 /\ i < Len(trace[p]) => trace[p][i + 1].call = "post"

\* a later invocation of a registered function, its container started by an
\* earlier one, has returned the result
C7_Witness ==
    \E p \in Procs : /\ Invoking(p) /\ Returned(p) /\ ~ret[p].err
                     /\ frame[p].uid \in DOMAIN cachedFunctions
                     /\ Did(p, "ContainerInspect", "running")
                     /\ \E r \in running_containers :
                            r.container_id = frame[p].fun.ContainerID.String

\* C8: in the readiness loop, when the listing by name made after a failed
\* probe comes back empty, InvokeFunction returns an error at once: the
\* listing is its last step, no probe, no sleep and no request follow.
C8_CrashStops ==
    \A p \in Procs : Invoking(p) =>
        \A i \in DOMAIN trace[p] :
            (trace[p][i].call = "ContainerList" /\ trace[p][i].res = "empty") =>
                /\ i = Len(trace[p])
                /\ Returned(p) /\ ret[p].err /\ ret[p].val = <<>>
                /\ ~Called(p, "post")
                /\ i > 1 /\ trace[p][i - 1].call = "probe"
                /\ trace[p][i - 1].res # "ok"

\* the container exited during the readiness loop and the call has returned
C8_Witness ==
    \E p \in Procs : /\ Invoking(p) /\ Returned(p) /\ ret[p].why = "crashed"
                     /\ Last(trace[p]).call = "ContainerList"
                     /\ Last(trace[p]).res = "empty"
                     /\ Did(p, "ContainerStart", "ok")

\* the probes of a call
C9_Probes(p) == {i \in DOMAIN trace[p] : trace[p][i].call = "probe"}

\* the most probes the backoff sequence lets into the timeout
RECURSIVE C9_ProbesWithin(_, _)
C9_ProbesWithin(elapsed, backoff) ==
    IF elapsed > ReadyTimeout THEN 0
    ELSE 1 + C9_ProbesWithin(elapsed + backoff, NextBackoff(backoff))

\* C9: the readiness loop begins no health probe once the elapsed time exceeds
\* the 10s timeout, so a call makes only finitely many probes (no more than the
\* backoff sequence fits into the timeout); and when the loop finds the timeout
\* exceeded the call returns an error and has posted nothing to the sidecar.
C9_BoundedWait ==
    \A p \in Procs : Invoking(p) =>
        /\ \A i \in C9_Probes(p) : trace[p][i].at <= ReadyTimeout
        /\ pc[p] = "w_probe" => frame[p].elapsed <= ReadyTimeout
        /\ Cardinality(C9_Probes(p)) <= C9_ProbesWithin(0, InitialBackoff)
        /\ \A i \in DOMAIN trace[p] : trace[p][i].call = "wait" =>
              /\ trace[p][i].at > ReadyTimeout
              /\ i = Len(trace[p])
              /\ Returned(p) /\ ret[p].err /\ ret[p].val = <<>>
              /\ ~Called(p, "post")

\* the sidecar answered none of the probes, its container listed all along,
\* and the call has returned on the timeout
C9_Witness ==
    \E p \in Procs : /\ Invoking(p) /\ Returned(p) /\ ret[p].why = "not ready"
                     /\ Last(trace[p]).call = "wait"
                     /\ Cardinality(C9_Probes(p)) = C9_ProbesWithin(0, InitialBackoff)
                     /\ \A i \in C9_Probes(p) : trace[p][i].res = "not ready"
                     /\ ~Did(p, "ContainerList", "fault")

\* the answers invokeHttpRequest must not turn into a result
C10_Bad(resp) ==
    \/ ~resp.transport
    \/ resp.status # StatusOK
    \/ ~resp.decodable
    \/ resp.error # ""

\* C10: InvokeFunction returns a result only when its request to the sidecar
\* was answered, with status 200, a body that decodes and an empty error field,
\* and the result is the one in that body; after a transport error, another
\* status, a body that does not decode or a non-empty error field it returns an
\* error and no result.
C10_DispatchResult ==
    \A p \in Procs : Invoking(p) =>
        /\ (Returned(p) /\ ~ret[p].err) =>
              /\ Called(p, "post")
              /\ ~C10_Bad(frame[p].resp)
              /\ ret[p].val = frame[p].resp.result
        /\ (Called(p, "post") /\ C10_Bad(frame[p].resp)) =>
              /\ Returned(p) /\ ret[p].err /\ ret[p].val = <<>>
              /\ Last(trace[p]).call = "post"

\* the sidecar answered 200 with a non-empty error field and the call has
\* returned an error
C10_Witness ==
    \E p \in Procs : /\ Invoking(p) /\ Returned(p) /\ ret[p].err
                     /\ Called(p, "post")
                     /\ frame[p].resp.transport /\ frame[p].resp.status = StatusOK
                     /\ frame[p].resp.decodable /\ frame[p].resp.error # ""

\* C11: the handlers answer 201 (create) or 200 (invoke) with the result
\* exactly when the engine call returned no error; when it returned an error
\* they answer 500 with a non-empty error string; a body that does not parse
\* is answered 400 with an error string, the engine not called.
C11_Answers ==
    /\ [](http.op # "none" =>
            /\ http.status \in {200, 201, 400, 500}
            /\ http.status \in {200, 201} <=> (http.bound /\ ~http.failed)
            /\ http.status = 201 => http.op = "create"
            /\ http.status = 200 => http.op = "invoke"
            /\ (http.bound /\ http.failed) <=> http.status = 500
            /\ ~http.bound <=> http.status = 400
            /\ http.status \in {400, 500} <=> http.error # ""
            /\ http.status \in {400, 500} => http.result = <<>>)
    /\ [][\A p \in Clients :
            (pc[p] = "ret" /\ pc'[p] = "idle") =>
               /\ http'.op = frame[p].op /\ http'.bound
               /\ http'.failed = ret[p].err
               /\ ~ret[p].err => http'.result = ret[p].val]_vars

\* the invocation of a registered function failed and was answered 500
C11_Witness ==
    /\ http.op = "invoke" /\ http.bound /\ http.failed
    /\ http.status = 500 /\ http.error # ""
    /\ functions # {}

\* the scheduler's commands of the current or last tick
C12_Commands == {i \in DOMAIN sched.log : sched.log[i].call # "query"}
C12_Logged(c, id, r) ==
    \E i \in DOMAIN sched.log : sched.log[i] = [call |-> c, cid |-> id, res |-> r]
\* a usage record older than the idle threshold when the tick ran its query
C12_Older(r) == sched.at - r.last_used > DeleteAfterMinutes
\* the tick is over and none of its calls failed
C12_CleanTick ==
    /\ sched.pc = "returned"
    /\ \A i \in DOMAIN sched.log : sched.log[i].res = "ok"

\* C12: a scheduler tick issues stop and delete commands only for usage
\* records older than the idle threshold at its query; when all its calls
\* succeed it has stopped the container and removed the usage record of every
\* such record, and every younger record is still there, no command issued for
\* its container.
C12_Reclaims ==
    /\ \A i \in C12_Commands :
          \E r \in sched.seen : r.container_id = sched.log[i].cid /\ C12_Older(r)
    /\ C12_CleanTick =>
          \A r \in sched.seen :
             IF C12_Older(r)
             THEN /\ C12_Logged("ContainerStop", r.container_id, "ok")
                  /\ C12_Logged("DELETE", r.container_id, "ok")
                  /\ \A c \in Container(r.container_id) : c.Status # "running"
                  /\ \A q \in running_containers : q.container_id # r.container_id
             ELSE /\ \A i \in C12_Commands : sched.log[i].cid # r.container_id
                  /\ r \in running_containers

\* a tick has reclaimed an old record, its container running before, and left
\* a young one alone
C12_Witness ==
    /\ C12_CleanTick
    /\ \E r, q \in sched.seen :
          /\ C12_Older(r) /\ ~C12_Older(q)
          /\ C12_Logged("ContainerStop", r.container_id, "ok")
          /\ \E c \in Container(q.container_id) : c.Status = "running"

\* C13: when a stop command fails the tick ends there: the failed stop is its
\* last command, CleanupContainers has returned with no row left to handle, and
\* the usage record of the container that failed to stop is kept, like those
\* of the rows that came after it.
C13_StopFailureEndsTick ==
    \A i \in DOMAIN sched.log :
        (sched.log[i].call = "ContainerStop" /\ sched.log[i].res # "ok") =>
            /\ i = Len(sched.log)
            /\ sched.pc = "returned" /\ sched.rows = <<>>
            /\ \E r \in running_containers : r.container_id = sched.log[i].cid
            /\ \A r \in sched.seen :
                  (C12_Older(r) /\ \A j \in C12_Commands : sched.log[j].cid # r.container_id)
                     => r \in running_containers

\* the first stop of a batch of two failed: both records are kept, the second
\* container still running
C13_Witness ==
    /\ Len(sched.log) = 2
    /\ sched.log[2].call = "ContainerStop" /\ sched.log[2].res = "fault"
    /\ sched.pc = "returned"
    /\ \E r \in sched.seen :
          /\ C12_Older(r) /\ r.container_id # sched.log[2].cid
          /\ r \in running_containers
          /\ \E c \in Container(r.container_id) : c.Status = "running"

\* C14: a step of the scheduler removes no container, renames none, changes a
\* container only by stopping it, leaves the functions table, its id counter
\* and the engine's cache as they are, and changes the usage records only by
\* deleting some.
C14_OnlyStops ==
    [][sched' # sched =>
          /\ functions' = functions /\ nextId' = nextId
          /\ cachedFunctions' = cachedFunctions
          /\ {[ID |-> c.ID, Name |-> c.Name] : c \in containers'}
                = {[ID |-> c.ID, Name |-> c.Name] : c \in containers}
          /\ Cardinality(containers') = Cardinality(containers)
          /\ \A c \in containers' \ containers : c.Status = "exited"
          /\ running_containers' \subseteq running_containers]_vars

\* the scheduler has stopped a container and deleted its usage record; the
\* container and every function are still there
C14_Witness ==
    /\ \E i \in DOMAIN sched.log :
          /\ sched.log[i].call = "DELETE" /\ sched.log[i].res = "ok"
          /\ \E c \in Container(sched.log[i].cid) : c.Status = "exited"
    /\ Cardinality(functions) = MaxRows
    /\ DOMAIN cachedFunctions = {generateFunctionID(f) : f \in functions}

\* C15: once the scheduler has stopped a function's container and deleted its
\* usage record, an invocation of the function has ContainerInspect answer
\* "not running" and goes on to ContainerStart, never straight to the dispatch;
\* it reaches the dispatch only after ContainerStart, a readiness probe that
\* answered 200 and the INSERT of UpdateLastUsedTime, in this order, and an
\* INSERT that succeeds leaves a usage record of the container stamped with the
\* current time.
C15_NoRecord(cid) == \A r \in running_containers : r.container_id # cid
C15_Reclaimed(cid) ==
    /\ \E c \in Container(cid) : c.Status = "exited"
    /\ C15_NoRecord(cid)
C15_ColdPath(t) ==
    \E i, j, k \in DOMAIN t :
       /\ i < j /\ j < k /\ k < Len(t)
       /\ t[i].call = "ContainerInspect" /\ t[i].res = "not running"
       /\ t[j].call = "ContainerStart" /\ t[j].res = "ok"
       /\ t[k].call = "probe" /\ t[k].res = "ok"
       /\ Last(t).call = "UpdateLastUsedTime"
C15_Fresh(cid) ==
    \E r \in running_containers' : r.container_id = cid /\ r.last_used = now
C15_ColdStartAgain ==
    [][LET p == Caller
           cid == frame[p].fun.ContainerID.String
       IN /\ pc[p] = "i_inspect" /\ pc'[p] # "i_inspect" /\ C15_Reclaimed(cid)
             => /\ pc'[p] \in {"i_start", "ret"}
                /\ pc'[p] = "i_start" => Last(trace'[p]).res = "not running"
                /\ pc'[p] = "ret" => ret'[p].err
          /\ pc[p] # "d_post" /\ pc'[p] = "d_post" /\ Did(p, "ContainerInspect", "not running")
             => /\ C15_ColdPath(trace'[p])
                /\ Last(trace'[p]).res = "ok" /\ C15_NoRecord(cid) => C15_Fresh(cid)]_vars

\* the scheduler's tick has stopped the container and deleted its record, and
\* the invocation that follows has started it again, seen it ready and
\* inserted the new record, and stands before the dispatch
C15_Witness ==
    LET p == Caller
        cid == frame[p].fun.ContainerID.String
    IN /\ \E i, j \in DOMAIN sched.log :
             /\ i < j
             /\ sched.log[i] = [call |-> "ContainerStop", cid |-> cid, res |-> "ok"]
             /\ sched.log[j] = [call |-> "DELETE", cid |-> cid, res |-> "ok"]
       /\ pc[p] = "d_post"
       /\ C15_ColdPath(trace[p])
       /\ Last(trace[p]).res = "ok"
       /\ \E r \in running_containers : r.container_id = cid /\ r.last_used = now
       /\ now > DeleteAfterMinutes
\* C16: a container the engine started, left running with no call in progress
\* and with no usage record younger than the idle threshold, is eventually
\* stopped (or a call comes in again), when the ticks keep firing and the
\* cleanup's calls succeed.
C16_Running(k) == \E c \in Container(Cids[k]) : c.Status = "running"
C16_Idle(k) ==
    /\ C16_Running(k)
    /\ mu = {}
    /\ \A r \in running_containers :
          r.container_id = Cids[k] => now - r.last_used > DeleteAfterMinutes
C16_EventuallyStopped ==
    \A k \in Deployed : C16_Idle(k) ~> (~C16_Running(k) \/ mu # {})

\* the same for the containers that have a usage record when the cleanup is
\* about to run
C16_RecordedAreStopped ==
    \A k \in Deployed :
       (C16_Idle(k) /\ ~C15_NoRecord(Cids[k]) /\ sched.pc = "sleep")
          ~> (~C16_Running(k) \/ mu # {})

\* an invocation has started the container and returned an error from the
\* readiness wait: the container runs and the store has no usage record of it
C16_Witness ==
    \E k \in Deployed :
       /\ C16_Running(k)
       /\ C15_NoRecord(Cids[k])
       /\ pc[Caller] = "ret" /\ ret[Caller].err
       /\ frame[Caller].fun.ID = k
       /\ Did(Caller, "ContainerStart", "ok")
       /\ Did(Caller, "wait", "timeout")
       /\ \A i \in DOMAIN trace[Caller] : trace[Caller][i].res # "fault"
\* C17: whenever no engine call and no cleanup run is in progress, the store
\* has a usage record of a function's container exactly if the container is
\* running (started by an invocation and not stopped since).
C17_AtRest == mu = {} /\ sched.pc = "sleep"
C17_Recorded(k) == \E r \in running_containers : r.container_id = Cids[k]
C17_RecordIffProvisioned ==
    C17_AtRest => \A k \in Deployed : C17_Recorded(k) <=> C16_Running(k)

\* no call has failed: the cleanup has stopped the container and deleted its
\* record, an invocation that started the container again in between has
\* returned its result, and the running container has no record
C17_Witness ==
    \E k \in Deployed :
       /\ pc[Caller] = "ret" /\ ~ret[Caller].err
       /\ frame[Caller].fun.ID = k
       /\ Did(Caller, "ContainerStart", "ok")
       /\ \A i \in DOMAIN trace[Caller] : trace[Caller][i].res # "fault"
       /\ sched.pc = "returned"
       /\ \A i \in DOMAIN sched.log : sched.log[i].res = "ok"
       /\ \E i \in DOMAIN sched.log :
             sched.log[i] = [call |-> "DELETE", cid |-> Cids[k], res |-> "ok"]
       /\ C16_Running(k)
       /\ ~C17_Recorded(k)
\* a decimal numeral of the number n: digits only, no leading zero
Decimal(t, n) ==
    /\ t # <<>>
    /\ Range(t) \subseteq Range(Digits)
    /\ Len(t) > 1 => t[1] # "0"
    /\ DigitsValue(t) = n

\* C18: the uid generated for a record has at most 63 characters, all of them
\* lower-case letters, digits or "-", and ends with "-" followed by the whole
\* decimal id; what stands before is the beginning of the record's name,
\* lower-cased, "_" turned into "-" and the other characters dropped, and it is
\* the whole of it unless the uid is 63 characters long.
C18_Made == idcase.stage \in {"generated", "solved", "looked"} /\ idcase.entry # NoEntry
C18_UidShape ==
    C18_Made =>
       LET u == idcase.uid
           e == idcase.entry
           full == StripOthers(ReplaceLower(e.FunctionName))
       IN /\ Len(u) <= MaxUidLen
          /\ Range(u) \subseteq (Range(Lower) \cup Range(Digits) \cup {"-"})
          /\ \E n \in DOMAIN u :
                /\ u[n] = "-"
                /\ Decimal(SubSeq(u, n + 1, Len(u)), e.ID)
                /\ n - 1 <= Len(full)
                /\ SubSeq(u, 1, n - 1) = SubSeq(full, 1, n - 1)
                /\ n - 1 < Len(full) => Len(u) = MaxUidLen

\* a name with characters to drop, cut to make room for the largest id
C18_Witness ==
    /\ idcase.stage = "generated"
    /\ Len(idcase.uid) = MaxUidLen
    /\ idcase.entry.ID = 2147483647
    /\ \E i \in DOMAIN idcase.entry.FunctionName :
          idcase.entry.FunctionName[i] \notin UidChars \cup Range(Upper) \cup {"_"}
    /\ Len(StripOthers(ReplaceLower(idcase.entry.FunctionName))) + 11 > MaxUidLen

\* C19: resolving the uid generated for a record gives the decimal numeral of
\* the record's id, and the uids generated for two records of different ids
\* differ.
C19_IdRoundTrip ==
    /\ (idcase.stage \in {"solved", "looked"} /\ idcase.entry # NoEntry)
          => Decimal(idcase.id, idcase.entry.ID)
    /\ (C18_Made /\ idcase.entry.ID # idcase.other.ID) => idcase.uid # idcase.uid2

\* two records of the same over-long name: both uids are cut to 63 characters
\* and the id is resolved from the first
C19_Witness ==
    /\ idcase.stage = "solved"
    /\ idcase.entry.FunctionName = idcase.other.FunctionName
    /\ idcase.entry.ID # idcase.other.ID
    /\ Len(idcase.uid) = MaxUidLen /\ Len(idcase.uid2) = MaxUidLen
    /\ "-" \in Range(StripOthers(ReplaceLower(idcase.entry.FunctionName)))
    /\ idcase.id = Itoa(idcase.entry.ID)

\* C20: the resolved id of a uid is what follows its last "-", the empty string
\* when the uid has no "-"; and the lookup with an empty resolved id finds no
\* record.
C20_Resolved ==
    idcase.stage \in {"solved", "looked"} =>
       LET u == idcase.uid
           id == idcase.id
       IN /\ "-" \notin Range(u) => id = <<>>
          /\ "-" \in Range(u) =>
                /\ "-" \notin Range(id)
                /\ Len(id) < Len(u)
                /\ u[Len(u) - Len(id)] = "-"
                /\ id = SubSeq(u, Len(u) - Len(id) + 1, Len(u))
          /\ (idcase.stage = "looked" /\ id = <<>>) => idcase.found = {}

\* a uid of digits without a "-", the id of a stored record: resolved to the
\* empty string, and the lookup has found nothing
C20_Witness ==
    /\ idcase.stage = "looked"
    /\ idcase.uid # <<>>
    /\ "-" \notin Range(idcase.uid)
    /\ \E f \in functions : Itoa(f.ID) = idcase.uid
    /\ idcase.id = <<>>
    /\ idcase.found = {}
\* C21: when handlers call CreateFunction side by side, every call that
\* succeeds returns a uid no earlier call returned and adds exactly its own
\* entry to the cache, the earlier entries kept; each returned uid resolves to
\* one stored record, which holds that call's name, code and container id, and
\* no two returned uids share a record or a container.
C21_Succeeds(p) == Creating(p) /\ pc[p] # "ret" /\ pc'[p] = "ret" /\ ~ret'[p].err
C21_DistinctRecords ==
    /\ [](\A u \in DOMAIN cachedFunctions :
            /\ GetFunction(u) = {cachedFunctions[u]}
            /\ cachedFunctions[u].ContainerID.Valid
            /\ \E c \in containers :
                  c.ID = cachedFunctions[u].ContainerID.String /\ c.Name = u
            /\ \A v \in DOMAIN cachedFunctions :
                  v # u => /\ cachedFunctions[v].ID # cachedFunctions[u].ID
                           /\ cachedFunctions[v].ContainerID # cachedFunctions[u].ContainerID)
    /\ [][/\ \A p \in Procs : C21_Succeeds(p) =>
               LET u == ret'[p].val
               IN /\ u \notin DOMAIN cachedFunctions
                  /\ DOMAIN cachedFunctions' = DOMAIN cachedFunctions \cup {u}
                  /\ \A v \in DOMAIN cachedFunctions :
                        cachedFunctions'[v] = cachedFunctions[v]
                  /\ cachedFunctions'[u].FunctionName = frame[p].name
                  /\ cachedFunctions'[u].FunctionCode = frame[p].code
                  /\ cachedFunctions'[u].ContainerID =
                        [String |-> frame[p].cid, Valid |-> TRUE]
                  /\ frame[p].cid \notin {f.ContainerID.String : f \in frame[p].before}
          /\ cachedFunctions' # cachedFunctions => \E p \in Procs : C21_Succeeds(p)]_vars

\* two handlers have created a function each, under the same name: two cache
\* entries, two records, two containers, the second call about to return
C21_Witness ==
    \E p \in Procs :
       /\ Creating(p) /\ Returned(p) /\ ~ret[p].err
       /\ Cardinality(DOMAIN cachedFunctions) = MaxCreates
       /\ Cardinality(functions) = MaxCreates
       /\ Cardinality({f.ContainerID.String : f \in functions}) = MaxCreates
       /\ \A f \in functions : f.FunctionName = frame[p].name
\* C22: every call that has entered CreateFunction or InvokeFunction eventually
\* returns and releases the mutex.
C22_Returns == \A p \in Procs : InBody(p) ~> (~InBody(p) /\ p \notin mu)

\* the same, but for the calls whose health probe is never answered
C22_ReturnsUnlessProbeHangs ==
    \A p \in Procs : InBody(p) ~> ((~InBody(p) /\ p \notin mu) \/ pc[p] = "w_hung")

\* a call waits in a health probe, holding the mutex, and another handler is
\* outside
C22_Witness ==
    \E p, q \in Procs :
       /\ p # q /\ pc[p] = "w_hung" /\ mu = {p} /\ pc[q] = "idle"
       /\ Did(p, "ContainerStart", "ok")
\* C23: when the InsertFunction step of CreateFunction returns an error, the
\* call returns with the store, the runtime and the cache as they were: no row
\* of the call in table functions, no container, no cache entry.
C23_InsertFails(p) == pc[p] = "c_insert" /\ pc'[p] = "ret"
C23_NothingElseHappens ==
    [][\A p \in Procs : C23_InsertFails(p) =>
          /\ ret'[p].err
          /\ functions' = functions
          /\ containers' = containers /\ nextCid' = nextCid
          /\ cachedFunctions' = cachedFunctions]_vars

\* the same, but for the failures after the INSERT statement has run
C23_CleanUnlessInserted ==
    [][\A p \in Procs :
          (C23_InsertFails(p) /\ ~Did(p, "InsertFunction", "commit failed")') =>
             /\ ret'[p].err
             /\ functions' = functions
             /\ containers' = containers /\ nextCid' = nextCid
             /\ cachedFunctions' = cachedFunctions]_vars

\* InsertFunction has failed after its INSERT and CreateFunction has returned
\* the error: the row is in the table, with no container id, and no container
\* was created
C23_Witness ==
    \E p \in Procs :
       /\ Creating(p) /\ Returned(p) /\ ret[p].err
       /\ Len(trace[p]) = 1
       /\ Last(trace[p]).call = "InsertFunction"
       /\ \E f \in functions \ frame[p].before :
             /\ f.FunctionName = frame[p].name
             /\ f.ContainerID = NullString
       /\ containers = {}
\* C24: when UpdateCIDToFunction fails after the container was created,
\* CreateFunction returns an error and that failed call is its last step: the
\* record it inserted stays in the store with no container id, the container
\* it created stays in the runtime, created and not started, and the cache has
\* no entry for the uid.
C24_Case(p) == Creating(p) /\ Returned(p) /\ Did(p, "UpdateCIDToFunction", "fault")
C24_NoCompensation ==
    \A p \in Procs : C24_Case(p) =>
        /\ ret[p].err /\ ret[p].val = <<>>
        /\ Last(trace[p]).call = "UpdateCIDToFunction"
        /\ ~Called(p, "DeleteFunction")
        /\ \E f \in functions \ frame[p].before :
              /\ GetFunction(frame[p].uid) = {f}
              /\ f.FunctionName = frame[p].name
              /\ f.ContainerID = NullString
        /\ \E c \in containers :
              c.ID = frame[p].cid /\ c.Name = frame[p].uid /\ c.Status = "created"
        /\ frame[p].uid \notin DOMAIN cachedFunctions

\* the attach has failed and the call has returned
C24_Witness ==
    \E p \in Procs : /\ C24_Case(p)
                     /\ Did(p, "ContainerCreate", "ok")
                     /\ Cardinality(functions) = 1 /\ Cardinality(containers) = 1
\* the usage records of the container of the function a call has looked up
C25_Records(p) ==
    {r \in running_containers : r.container_id = frame[p].fun.ContainerID.String}

\* a usage record is added only by the INSERT of a call that found the
\* container not running, started it and had its probe answered with 200;
\* a container never has two records
C25_InsertOnColdStartOnly ==
    /\ [](\A r, q \in running_containers : r.container_id = q.container_id => r = q)
    /\ [][{r.container_id : r \in running_containers'}
             # {r.container_id : r \in running_containers}
           => \E p \in Procs :
                 /\ pc[p] = "i_usage" /\ pc'[p] = "d_post"
                 /\ Did(p, "ContainerInspect", "not running")
                 /\ Did(p, "ContainerStart", "ok")
                 /\ Last(trace[p]).call = "probe" /\ Last(trace[p]).res = "ok"
                 /\ running_containers' = running_containers \cup
                      {[container_id |-> frame[p].fun.ContainerID.String,
                        function_id |-> frame[p].fun.ID, last_used |-> now]}]_vars

\* C25: a usage record is inserted by the invocations that start the container
\* and see it ready, and never by the ones that find it running; and with no
\* scheduler at work, whenever an invocation has returned a result the
\* container of its function has exactly one usage record.
C25_OneRecord ==
    /\ C25_InsertOnColdStartOnly
    /\ [](\A p \in Procs : (Invoking(p) /\ Returned(p) /\ ~ret[p].err) =>
              Cardinality(C25_Records(p)) = 1)

\* the first invocation of a function has started the container, seen it
\* ready and returned the sidecar's result; its INSERT had failed, and the
\* container has no usage record
C25_Witness ==
    \E p \in Procs :
       /\ Invoking(p) /\ Returned(p) /\ ~ret[p].err
       /\ ret[p].val = Result
       /\ Did(p, "ContainerStart", "ok") /\ Did(p, "probe", "ok")
       /\ \E i \in DOMAIN trace[p] :
             /\ trace[p][i].call = "UpdateLastUsedTime" /\ trace[p][i].res = "fault"
             /\ trace[p][i - 1].call = "probe"
       /\ C25_Records(p) = {}
\* the invocations whose request was answered by the sidecar and have
\* returned, no statement on the usage records having failed
C26_Answered(p) ==
    /\ Invoking(p) /\ Returned(p)
    /\ Did(p, "post", "answered")
    /\ ~Did(p, "UpdateLastUsedTime", "fault")
C26_Stamped(p) ==
    \A r \in running_containers : r.function_id = frame[p].fun.ID => r.last_used = now

\* C26: when an invocation whose request the sidecar answered returns, the
\* usage record of the function's container carries the current time, whether
\* the answer was a result or a failure.
C26_UpdatedOnEveryAnswer == C26_Answered(Caller) => C26_Stamped(Caller)

\* the same for the invocations that return the sidecar's result
C26_UpdatedOnSuccess == (C26_Answered(Caller) /\ ~ret[Caller].err) => C26_Stamped(Caller)

\* an invocation found the container running, the sidecar answered with an
\* error, and the usage record still carries the time of an earlier invocation
C26_Witness ==
    LET p == Caller
    IN /\ C26_Answered(p) /\ ret[p].err
       /\ Did(p, "ContainerInspect", "running")
       /\ frame[p].resp.transport /\ frame[p].resp.error # ""
       /\ \E r \in running_containers :
             /\ r.function_id = frame[p].fun.ID
             /\ r.container_id = frame[p].fun.ContainerID.String
             /\ r.last_used < now
\* an InvokeFunction call is past the inspection of container cid and its
\* request to the sidecar has not come back yet
C27_MidInvocation(p, cid) ==
    /\ Invoking(p)
    /\ pc[p] \in {"i_start", "w_check", "w_probe", "w_list", "w_sleep", "i_usage", "d_post"}
    /\ frame[p].fun.ContainerID.String = cid

\* C27: the scheduler issues no ContainerStop for a container while an
\* InvokeFunction call of its function is between the inspection of the
\* container and the end of its dispatch.
C27_NoStopMidInvocation ==
    [][(sched.pc = "loop" /\ Len(sched'.log) > Len(sched.log)
        /\ Last(sched'.log).call = "ContainerStop")
       => ~C27_MidInvocation(Caller, Last(sched'.log).cid)]_vars

\* an invocation found the container running and is about to send its
\* request; the scheduler's tick has just stopped the container
C27_Witness ==
    LET p == Caller
        cid == frame[p].fun.ContainerID.String
    IN /\ pc[p] = "d_post"
       /\ Last(trace[p]).call = "ContainerInspect" /\ Last(trace[p]).res = "running"
       /\ sched.pc = "delete"
       /\ Last(sched.log) = [call |-> "ContainerStop", cid |-> cid, res |-> "ok"]
       /\ \E c \in Container(cid) : c.Status = "exited"
\* the call that inserted record f and has not returned yet
C28_Own(p, f) ==
    /\ Creating(p)
    /\ f \notin frame[p].before
    /\ generateFunctionID(f) = frame[p].uid

\* C28: a record of table functions changes in one way only, its container id
\* going from unset to the id of the container the call that inserted it has
\* just created; and a record leaves the table only in the backtrack of the
\* call that inserted it, its container id still unset.
C28_WrittenOnce ==
    [][\A f \in functions :
          LET after == {g \in functions' : g.ID = f.ID}
          IN /\ after # {f} /\ after # {} =>
                  /\ f.ContainerID = NullString
                  /\ \E p \in Procs :
                        /\ C28_Own(p, f)
                        /\ pc[p] = "c_attach"
                        /\ after = {[f EXCEPT !.ContainerID =
                                        [String |-> frame[p].cid, Valid |-> TRUE]]}
                        /\ \E c \in containers :
                              c.ID = frame[p].cid /\ c.Name = frame[p].uid
                        /\ \A g \in functions : g.ContainerID.String # frame[p].cid
             /\ after = {} =>
                  /\ f.ContainerID = NullString
                  /\ \E p \in Procs :
                        /\ C28_Own(p, f)
                        /\ pc[p] = "c_delete"
                        /\ ~Did(p, "ContainerCreate", "ok")]_vars

\* a first record has its container id; the call that inserted a second one
\* has seen ContainerCreate fail and has deleted it
C28_Witness ==
    \E p \in Procs :
       /\ Creating(p) /\ Returned(p)
       /\ Did(p, "DeleteFunction", "ok")
       /\ frame[p].before # {}
       /\ functions = frame[p].before
       /\ \A f \in functions : f.ContainerID.Valid
RECURSIVE C29_Pow(_, _)
C29_Pow(b, n) == IF n = 0 THEN 1 ELSE b * C29_Pow(b, n - 1)

\* w is min(500ms x 1.5^(k-1), 5s)
C29_IsKthWait(w, k) ==
    IF InitialBackoff * C29_Pow(3, k - 1) <= MaxBackoff * C29_Pow(2, k - 1)
    THEN w * C29_Pow(2, k - 1) = InitialBackoff * C29_Pow(3, k - 1)
    ELSE w = MaxBackoff

\* the waits of a call so far
C29_Sleeps(t) == Cardinality({i \in DOMAIN t : t[i].call = "sleep"})

C30_Failed(p) ==
    \E i \in DOMAIN trace[p] :
       trace[p][i].res \in {"fault", "no transaction", "insert failed", "commit failed"}

\* C30: a CreateFunction or InvokeFunction call during which a store or
\* runtime call failed, the INSERT or UPDATE of the usage record included,
\* returns an error.
C30_NothingSwallowed ==
    \A p \in Procs : (Returned(p) /\ C30_Failed(p)) => ret[p].err

\* the same, the statements on the usage record left out
C30_OthersReported ==
    \A p \in Procs :
       (/\ Returned(p)
        /\ \E i \in DOMAIN trace[p] :
              /\ trace[p][i].res \in {"fault", "no transaction", "insert failed",
                                       "commit failed"}
              /\ trace[p][i].call # "UpdateLastUsedTime") => ret[p].err

\* an invocation of a running container's function has returned the sidecar's
\* result, and its UPDATE of the usage record had failed
C30_Witness ==
    \E p \in Procs :
       /\ Invoking(p) /\ Returned(p) /\ ~ret[p].err /\ ret[p].val = Result
       /\ Did(p, "ContainerInspect", "running")
       /\ Last(trace[p]).call = "UpdateLastUsedTime" /\ Last(trace[p]).res = "fault"
       /\ ~Did(p, "UpdateLastUsedTime", "ok")
\* C31: an entry of the cache, once inserted, stays under its key with the
\* same record at every step; the cache changes only in a step of the
\* CreateFunction call that holds the engine mutex, and the cache is read only
\* by the InvokeFunction call that holds the mutex.
C31_CacheKept ==
    [][/\ \A u \in DOMAIN cachedFunctions :
             u \in DOMAIN cachedFunctions' /\ cachedFunctions'[u] = cachedFunctions[u]
       /\ cachedFunctions' # cachedFunctions =>
             \E p \in Procs : /\ mu = {p} /\ mu' = {p}
                              /\ Creating(p) /\ pc[p] = "c_get"
       /\ \A p \in Procs :
             (pc[p] = "i_lookup" /\ pc'[p] # "i_lookup") => mu = {p} /\ mu' = {p}]_vars

\* two functions are cached, the second just now by a call that still holds
\* the mutex, after an invocation of the first had started its container
C31_Witness ==
    \E p \in Procs :
       /\ Creating(p) /\ Returned(p) /\ ~ret[p].err /\ mu = {p}
       /\ Cardinality(DOMAIN cachedFunctions) = 2
       /\ \E c \in containers : c.Status = "running"
\* C32: whenever InvokeFunction goes from the inspection straight to the
\* dispatch, skipping the start and the readiness loop, the sidecar of the
\* function's container has answered a health probe with 200 since the
\* container was last started.
C32_WarmIsHealthy ==
    [][\A p \in Procs :
          (pc[p] = "i_inspect" /\ pc'[p] = "d_post")
             => frame[p].fun.ContainerID.String \in probed]_vars

\* what holds instead: the handshake is skipped only for a container the
\* inspection found running
C32_WarmIsRunning ==
    [][\A p \in Procs :
          (pc[p] = "i_inspect" /\ pc'[p] = "d_post")
             => \E c \in Container(frame[p].fun.ContainerID.String) :
                   c.Status = "running"]_vars

\* an invocation stands before the dispatch, the inspection having found the
\* container running, and the container has answered no probe since an
\* earlier invocation started it
C32_Witness ==
    LET p == Caller
    IN /\ pc[p] = "d_post"
       /\ Did(p, "ContainerInspect", "running")
       /\ frame[p].fun.ContainerID.String \notin probed
       /\ Reachable(frame[p].uid)
\* C33: in every state each cache entry holds a record whose container id is
\* set, whose generated uid is the entry's key, and which is the record the
\* functions table holds under the same id.
C33_CacheMatchesStore ==
    \A u \in DOMAIN cachedFunctions :
       LET fun == cachedFunctions[u]
       IN /\ fun.ContainerID.Valid /\ fun.ContainerID.String # ""
          /\ generateFunctionID(fun) = u
          /\ {f \in functions : f.ID = fun.ID} = {fun}

\* two functions are cached, each under its uid, and the cache holds the two
\* rows of the store
C33_Witness ==
    /\ Cardinality(DOMAIN cachedFunctions) = 2
    /\ {cachedFunctions[u] : u \in DOMAIN cachedFunctions} = functions
    /\ \A f \in functions : generateFunctionID(f) \in DOMAIN cachedFunctions
    /\ mu = {}
\* C34: no step of an InvokeFunction call changes the cache, and a call whose
\* uid is not a key of the cache asks the store for the record, every time:
\* the record fetched is not put into the cache.
C34_InvokeKeepsCache ==
    [][\A p \in Procs :
          (Invoking(p) /\ pc'[p] # pc[p]) =>
             /\ cachedFunctions' = cachedFunctions
             /\ (pc[p] = "i_lookup" /\ frame[p].uid \notin DOMAIN cachedFunctions)
                   => Last(trace'[p]).call = "GetFunction"]_vars

\* the cache is empty and the store holds a function an earlier call left
\* uncached; an invocation has fetched it from the store and found its
\* container running, started by an invocation before it
C34_Witness ==
    \E p \in Procs :
       /\ Invoking(p) /\ Returned(p) /\ ~ret[p].err
       /\ DOMAIN cachedFunctions = {}
       /\ Did(p, "GetFunction", "ok")
       /\ Did(p, "ContainerInspect", "running")
\* an invocation whose uid is the generated uid of no stored record has
\* returned
C35_Unknown(p) ==
    /\ Invoking(p) /\ Returned(p)
    /\ \A f \in functions : generateFunctionID(f) # frame[p].uid

\* C35: an InvokeFunction call with a uid that is the generated uid of no
\* stored record returns an error, has issued no ContainerStart, and leaves
\* the container of the record it resolved to not running unless it found it
\* running.
C35_UnknownUidStartsNothing ==
    \A p \in Procs : C35_Unknown(p) =>
        /\ ret[p].err
        /\ ~Called(p, "ContainerStart")
        /\ ~Did(p, "ContainerInspect", "running") =>
              \A c \in Container(frame[p].fun.ContainerID.String) : c.Status # "running"

\* what holds instead: the call returns an error
C35_UnknownUidFails ==
    \A p \in Procs : C35_Unknown(p) => ret[p].err

\* an invocation with another name in front of the id of the first record has
\* started that record's container, found no sidecar under its uid and
\* returned its error, the container running
C35_Witness ==
    \E p \in Procs :
       /\ C35_Unknown(p) /\ ret[p].err
       /\ frame[p].uid = <<"x", "-", "1">>
       /\ frame[p].fun.ID = 1
       /\ Did(p, "ContainerStart", "ok")
       /\ Did(p, "ContainerList", "empty")
       /\ \E c \in Container(frame[p].fun.ContainerID.String) : c.Status = "running"
\* C36: in the readiness loop a ContainerList that returns an error ends the
\* invocation just as one that returns no container: it comes right after a
\* probe that was not answered with 200, it is the last call of the
\* invocation, no wait and no probe follow it, and the invocation returns the
\* error of a crashed container.
C36_ListErrorIsCrash ==
    \A p \in Procs : \A i \in DOMAIN trace[p] :
       (trace[p][i].call = "ContainerList" /\ trace[p][i].res \in {"fault", "empty"}) =>
          /\ i > 1 /\ trace[p][i - 1].call = "probe" /\ trace[p][i - 1].res # "ok"
          /\ i = Len(trace[p])
          /\ Returned(p) /\ ret[p].err /\ ret[p].why = "crashed"

\* the first probe of a started container was not answered in time, the
\* listing failed, and the invocation has returned as crashed with the
\* container running
C36_Witness ==
    \E p \in Procs :
       /\ Invoking(p) /\ Returned(p) /\ ret[p].why = "crashed"
       /\ Last(trace[p]) = [call |-> "ContainerList", res |-> "fault",
                            at |-> frame[p].elapsed]
       /\ Did(p, "probe", "not ready")
       /\ ~Called(p, "sleep")
       /\ Listed(frame[p].uid) # {}
\* the tick's DELETE of a usage record failed
C37_DeleteFailed(i) == sched.log[i].call = "DELETE" /\ sched.log[i].res # "ok"

\* during a tick: a failed DELETE follows the successful stop of the same
\* container and is the tick's last command; CleanupContainers has returned
\* with no row left, the container is not running, its usage record is still
\* there, and so are the records of the rows that came after it
C37_TickEnds ==
    \A i \in DOMAIN sched.log : C37_DeleteFailed(i) =>
        /\ i > 1
        /\ sched.log[i - 1] = [call |-> "ContainerStop", cid |-> sched.log[i].cid,
                               res |-> "ok"]
        /\ i = Len(sched.log)
        /\ sched.pc = "returned" /\ sched.rows = <<>>
        /\ \A c \in Container(sched.log[i].cid) : c.Status # "running"
        /\ \E r \in running_containers : r.container_id = sched.log[i].cid
        /\ \A r \in sched.seen :
              (C12_Older(r) /\ \A j \in C12_Commands : sched.log[j].cid # r.container_id)
                 => r \in running_containers

\* at a later tick: the query that succeeds selects every record older than
\* the threshold, the ones of stopped containers included, and the stop
\* command is issued for a selected container whether it runs or not
C37_SelectedAgain ==
    /\ (sched.pc = "sleep" /\ sched'.pc = "loop") =>
          \A r \in running_containers :
             now - r.last_used > DeleteAfterMinutes =>
                \E k \in DOMAIN sched'.rows : sched'.rows[k] = r.container_id
    /\ (sched.pc = "loop" /\ sched'.pc = "delete") =>
          /\ Last(sched'.log) = [call |-> "ContainerStop", cid |-> Head(sched.rows),
                                 res |-> "ok"]
          /\ \A c \in containers' : c.ID = Head(sched.rows) => c.Status # "running"

\* C37: when the DELETE of a usage record fails after its container was
\* stopped, the tick ends there, the container stopped and its record kept, no
\* later record of the batch handled; a later tick selects the kept record
\* again and stops its container again.
C37_DeleteFailureEndsTick == []C37_TickEnds /\ [][C37_SelectedAgain]_vars

\* of a batch of two the first container was stopped and the DELETE of its
\* record failed: both records are kept, the second container still runs
C37_Witness ==
    /\ Len(sched.log) = 3
    /\ C37_DeleteFailed(3)
    /\ sched.pc = "returned"
    /\ \E c \in Container(sched.log[3].cid) : c.Status = "exited"
    /\ \E r \in sched.seen :
          /\ C12_Older(r) /\ r.container_id # sched.log[3].cid
          /\ r \in running_containers
          /\ \E c \in Container(r.container_id) : c.Status = "running"
\* the usage record of container id is older than the idle threshold
C38_Idle(id) ==
    \E r \in running_containers :
       r.container_id = id /\ now - r.last_used > DeleteAfterMinutes

\* C38: an idle usage record of a container whose stop would succeed is
\* eventually deleted by the scheduler, whatever happens to the stops of the
\* other idle containers.
C38_EventuallyReclaimed == C38_Idle(Sound) ~> C15_NoRecord(Sound)

\* what holds instead: the record is reclaimed when it is the only one
C38_ReclaimedWhenAlone ==
    (C38_Idle(Sound) /\ Cardinality(running_containers) = 1) ~> C15_NoRecord(Sound)

\* a tick has ended at the failed stop of another container, which came first
\* in its result; the record of the container whose stop would succeed is old
\* enough, was selected, and is still there, its container running
C38_Witness ==
    /\ sched.pc = "returned"
    /\ Len(sched.log) = 2
    /\ sched.log[2].call = "ContainerStop" /\ sched.log[2].res = "fault"
    /\ sched.log[2].cid # Sound
    /\ C38_Idle(Sound)
    /\ \E r \in sched.seen : r.container_id = Sound /\ C12_Older(r)
    /\ \E c \in Container(Sound) : c.Status = "running"
\* what each setting says: its duration in seconds, none for a setting that
\* is no duration
C39_Unparsable == { <<>>, <<"s", "o", "o", "n">>, <<"1">> }
C39_Seconds(setting) ==
    CASE setting = <<"0">> -> 0
      [] setting = <<"3", "0", "s">> -> 30
      [] setting = <<"5", "9", "s">> -> 59
      [] setting = <<"1", "m">> -> 60
      [] setting = <<"9", "0", "s">> -> 90
      [] setting = <<"1", "m", "5", "9", "s">> -> 119
      [] setting = <<"2", "m">> -> 120
      [] setting = <<"1", "2", "0", "s">> -> 120
      [] setting = <<"-", "9", "0", "s">> -> 0 - 90

\* the whole minutes of the setting, 0 for a setting that is no duration
C39_Threshold ==
    IF DELETE_AFTER \in C39_Unparsable THEN 0
    ELSE CHOOSE m \in -2..2 : /\ m * 60 <= C39_Seconds(DELETE_AFTER)
                              /\ C39_Seconds(DELETE_AFTER) < (m + 1) * 60

\* the records a tick at time t is to reclaim
C39_Due(rows, t) == {r \in rows : r.last_used < t - C39_Threshold}

\* the threshold handed to the query is the one of the setting, for a
\* duration that is not negative; every command of a tick is for a record
\* that is due; a tick whose calls all succeeded has stopped the container
\* and deleted the record of every record that was due, and of no other
C39_ExactlyTheDue ==
    /\ (DELETE_AFTER \in C39_Unparsable \/ C39_Seconds(DELETE_AFTER) >= 0) =>
          Minutes(ParseDuration(DELETE_AFTER)) = C39_Threshold
    /\ \A i \in C12_Commands :
          \E r \in C39_Due(sched.seen, sched.at) : r.container_id = sched.log[i].cid
    /\ C12_CleanTick =>
          /\ running_containers = sched.seen \ C39_Due(sched.seen, sched.at)
          /\ \A r \in C39_Due(sched.seen, sched.at) :
                /\ C12_Logged("ContainerStop", r.container_id, "ok")
                /\ C12_Logged("DELETE", r.container_id, "ok")
          /\ C39_Threshold = 0 =>
                \A r \in sched.seen : r.last_used < sched.at => r \notin running_containers

\* the query that succeeds returns the records that are due, and no other
C39_SelectsTheDue ==
    (sched.pc = "sleep" /\ sched'.pc = "loop") =>
       {sched'.rows[k] : k \in DOMAIN sched'.rows}
          = {r.container_id : r \in C39_Due(running_containers, now)}

\* C39: the threshold of a tick is the whole minutes of DELETE_AFTER, 0 when
\* it is unset or no duration; the tick selects, and reclaims when its calls
\* succeed, exactly the usage records last used strictly earlier than that
\* many minutes before its query: all the records last used before the query
\* when the threshold is 0.
C39_ThresholdApplied == []C39_ExactlyTheDue /\ [][C39_SelectsTheDue]_vars

\* with DELETE_AFTER=90s a tick two minutes after a record was last used has
\* reclaimed it, and has left the record last used one minute before the tick
C39_Witness ==
    /\ DELETE_AFTER = <<"9", "0", "s">>
    /\ C12_CleanTick
    /\ sched.at = 2
    /\ \E r, q \in sched.seen :
          /\ r.last_used = 0 /\ r \notin running_containers
          /\ C12_Logged("DELETE", r.container_id, "ok")
          /\ q.last_used = 1 /\ q \in running_containers

\* with DELETE_AFTER unset a tick has reclaimed the record last used a minute
\* before it
C39_WitnessUnset ==
    /\ DELETE_AFTER = <<>>
    /\ C12_CleanTick
    /\ \E r \in sched.seen :
          /\ r.last_used = sched.at - 1 /\ r \notin running_containers
          /\ C12_Logged("DELETE", r.container_id, "ok")
====
